---- MODULE Spec2Model ----
(***************************************************************************)
(* A model of the ZIP writer (lib/zip.js, lib/write.js) and reader         *)
(* (lib/unzip.js as concatenated into lib/zip.js, lib/read.js).            *)
(*                                                                         *)
(* Numbers.  TLC integers are 32-bit signed, while the library handles     *)
(* 32-bit unsigned Numbers and 64-bit BigInts whose thresholds             *)
(* (0xFFFFFFFF) matter.  Every quantity of 32 bits or more (cursor, sizes, *)
(* offsets, crc32, external attributes, signatures) is therefore a tuple   *)
(* of four 16-bit limbs, least significant first.  16-bit fields are       *)
(* plain naturals.  Buffers are sequences of bytes 0..255.                 *)
(***************************************************************************)
EXTENDS Integers, Sequences, FiniteSets, TLC

(***************************************************************************)
(* Bounds of the model.                                                    *)
(***************************************************************************)
MaxAdds == 2
MaxFinalize == 1
MaxRemoves == 1

(***************************************************************************)
(* Results of operations that may throw.                                   *)
(***************************************************************************)
Ok(v) == [ok |-> TRUE, v |-> v, err |-> ""]
Err(m) == [ok |-> FALSE, v |-> <<>>, err |-> m]

(***************************************************************************)
(* Wide numbers: four 16-bit limbs, little-endian.                         *)
(***************************************************************************)
Limb == 65536
Undefined == <<>>
W(n) == <<n % Limb, (n \div Limb) % Limb, 0, 0>>
W32(hi, lo) == <<lo, hi, 0, 0>>
WZero == <<0, 0, 0, 0>>
U32Max == <<65535, 65535, 0, 0>>

WAdd(a, b) ==
  LET s1 == a[1] + b[1]
      s2 == a[2] + b[2] + (s1 \div Limb)
      s3 == a[3] + b[3] + (s2 \div Limb)
      s4 == a[4] + b[4] + (s3 \div Limb)
  IN  <<s1 % Limb, s2 % Limb, s3 % Limb, s4 % Limb>>

\* a - b for a >= b
WSub(a, b) ==
  LET d1 == a[1] - b[1]
      b1 == IF d1 < 0 THEN 1 ELSE 0
      d2 == a[2] - b[2] - b1
      b2 == IF d2 < 0 THEN 1 ELSE 0
      d3 == a[3] - b[3] - b2
      b3 == IF d3 < 0 THEN 1 ELSE 0
      d4 == a[4] - b[4] - b3
  IN  <<d1 % Limb, d2 % Limb, d3 % Limb, d4 % Limb>>

WLt(a, b) ==
  \/ a[4] < b[4]
  \/ a[4] = b[4] /\ a[3] < b[3]
  \/ a[4] = b[4] /\ a[3] = b[3] /\ a[2] < b[2]
  \/ a[4] = b[4] /\ a[3] = b[3] /\ a[2] = b[2] /\ a[1] < b[1]

\* a > b where the source has a >= b
WGeStrict(a, b) == a # Undefined /\ a # b /\ ~WLt(a, b)

\* JS: x >= y is false when x is undefined
WGe(a, b) == a # Undefined /\ ~WLt(a, b)
WGt(a, b) == a # Undefined /\ WLt(b, a)

\* Number(x) of a value known to be below 2^31
WNum(a) == a[1] + Limb * a[2]
WIsSmall(a) == a[3] = 0 /\ a[4] = 0 /\ a[2] < 32768

(***************************************************************************)
(* Buffer primitives (node:buffer), with write range checks.               *)
(***************************************************************************)
InRange16(n) == n >= 0 /\ n <= 65535
InRange32(a) == a # Undefined /\ a[3] = 0 /\ a[4] = 0
\* a 16-bit field written from a Number that the model keeps wide
InRange16W(a) == a # Undefined /\ a[2] = 0 /\ a[3] = 0 /\ a[4] = 0

writeUInt16LE(n) == <<n % 256, n \div 256>>
writeUInt32LE(a) == writeUInt16LE(a[1]) \o writeUInt16LE(a[2])
writeBigUInt64LE(a) ==
  writeUInt16LE(a[1]) \o writeUInt16LE(a[2]) \o writeUInt16LE(a[3]) \o writeUInt16LE(a[4])

\* offsets are 0-based as in the source
HasBytes(buf, off, n) == off >= 0 /\ off + n <= Len(buf)
readUInt8(buf, off) == buf[off + 1]
readUInt16LE(buf, off) == buf[off + 1] + 256 * buf[off + 2]
readUInt32LE(buf, off) == <<readUInt16LE(buf, off), readUInt16LE(buf, off + 2), 0, 0>>
readBigUInt64LE(buf, off) ==
  <<readUInt16LE(buf, off), readUInt16LE(buf, off + 2),
    readUInt16LE(buf, off + 4), readUInt16LE(buf, off + 6)>>

\* buf.subarray(start, end), clamped like the source's Buffer: a negative index
\* counts from the end of the buffer
subarray(buf, start, end) ==
  LET Index(n) == IF n > Len(buf) THEN Len(buf)
                  ELSE IF n >= 0 THEN n
                  ELSE IF Len(buf) + n > 0 THEN Len(buf) + n ELSE 0
      s == Index(start)
      e == Index(end)
  IN  IF e <= s THEN <<>> ELSE SubSeq(buf, s + 1, e)

RECURSIVE Concat(_)
Concat(chunks) ==
  IF chunks = <<>> THEN <<>> ELSE Head(chunks) \o Concat(Tail(chunks))

RECURSIVE SumLen(_)
SumLen(chunks) ==
  IF chunks = <<>> THEN 0 ELSE Len(Head(chunks)) + SumLen(Tail(chunks))

(***************************************************************************)
(* External primitives.  zlib.crc32(chunk, crc) is abstracted by a         *)
(* checksum with the same chaining law crc(a ++ b) = crc(b, crc(a)); raw   *)
(* deflate by a stored-block encoding (length byte, data) closed by a zero *)
(* byte, inflate being its inverse.                                        *)
(***************************************************************************)
RECURSIVE crc32(_, _)
crc32(chunk, crc) ==
  IF chunk = <<>> THEN crc
  ELSE crc32(Tail(chunk),
             <<(crc[1] * 31 + Head(chunk) + 1) % Limb,
               (crc[2] * 17 + crc[1] + Head(chunk)) % Limb, 0, 0>>)

deflateChunk(chunk) == IF chunk = <<>> THEN <<>> ELSE <<Len(chunk)>> \o chunk
deflateEnd == <<0>>
deflateRaw(buffer) == deflateChunk(buffer) \o deflateEnd

RECURSIVE inflateRaw(_)
inflateRaw(data) ==
  IF data = <<>> THEN Err("unexpected end of file")
  ELSE IF Head(data) = 0
    THEN (IF Len(data) = 1 THEN Ok(<<>>) ELSE Err("trailing data"))
  ELSE IF Len(data) < 1 + Head(data) THEN Err("unexpected end of file")
  ELSE LET rest == inflateRaw(SubSeq(data, 2 + Head(data), Len(data)))
       IN  IF rest.ok THEN Ok(SubSeq(data, 2, 1 + Head(data)) \o rest.v) ELSE rest

(***************************************************************************)
(* constants.js                                                            *)
(***************************************************************************)
\* the flags with the data descriptor bit moved to bit 4
generalPurposeBitFlagsBit4 ==
  [encrypted |-> 1, strongEncryption |-> 64, unknownCrc32AndFileSizes |-> 16, utf8 |-> 2048]
generalPurposeBitFlags ==
  [encrypted |-> 1, strongEncryption |-> 64, unknownCrc32AndFileSizes |-> 8, utf8 |-> 2048]
compressionMethods == [none |-> 0, deflate |-> 8]

\* flag & bit, for a single-bit mask
HasBit(flag, bit) == (flag \div bit) % 2 = 1

VERSION_NEEDED_TO_EXTRACT_UTF8 == 20
VERSION_NEEDED_TO_EXTRACT_ZIP64 == 45
VERSION_MADE_BY == 3 * 256 + 63
EMPTY_BUFFER == <<>>
eocdrSignatureBuffer == <<80, 75, 5, 6>>

LocalFileHeaderSignature == W32(1027, 19280)
DataDescriptorSignature == W32(2055, 19280)
CentralDirectoryFileHeaderSignature == W32(513, 19280)
EndOfCentralDirectoryRecordSignature == W32(1541, 19280)
Zip64EndOfCentralDirectoryRecordSignature == W32(1542, 19280)
Zip64EndOfCentralDirectoryLocatorSignature == W32(1798, 19280)

(***************************************************************************)
(* write.js                                                                *)
(***************************************************************************)
RECURSIVE serializeExtraFields(_)
serializeExtraFields(extraFields) ==
  IF extraFields = <<>> THEN <<>>
  ELSE writeUInt16LE(Head(extraFields).id)
       \o writeUInt16LE(Len(Head(extraFields).data))
       \o Head(extraFields).data
       \o serializeExtraFields(Tail(extraFields))

serializeLocalFileHeader(object) ==
  LET extraFields == serializeExtraFields(object.extraFields)
  IN  IF ~(/\ InRange16(object.versionNeededToExtract)
           /\ InRange16(object.generalPurposeBitFlag)
           /\ InRange16(object.compressionMethod)
           /\ InRange16(object.fileLastModificationTime)
           /\ InRange16(object.fileLastModificationDate)
           /\ InRange32(object.crc32)
           /\ InRange32(object.compressedSize)
           /\ InRange32(object.uncompressedSize)
           /\ InRange16(Len(object.fileName))
           /\ InRange16(Len(extraFields)))
      THEN Err("ERR_OUT_OF_RANGE")
      ELSE Ok(writeUInt32LE(LocalFileHeaderSignature)
              \o writeUInt16LE(object.versionNeededToExtract)
              \o writeUInt16LE(object.generalPurposeBitFlag)
              \o writeUInt16LE(object.compressionMethod)
              \o writeUInt16LE(object.fileLastModificationTime)
              \o writeUInt16LE(object.fileLastModificationDate)
              \o writeUInt32LE(object.crc32)
              \o writeUInt32LE(object.compressedSize)
              \o writeUInt32LE(object.uncompressedSize)
              \o writeUInt16LE(Len(object.fileName))
              \o writeUInt16LE(Len(extraFields))
              \o object.fileName
              \o extraFields)

serializeDataDescriptor(object) ==
  IF object.compressedSize = Undefined \/ object.uncompressedSize = Undefined
  THEN Err("data descriptor should only be used with zip64")
  ELSE IF ~InRange32(object.crc32) THEN Err("ERR_OUT_OF_RANGE")
  ELSE Ok(writeUInt32LE(DataDescriptorSignature)
          \o writeUInt32LE(object.crc32)
          \o writeBigUInt64LE(object.compressedSize)
          \o writeBigUInt64LE(object.uncompressedSize))

serializeCentralDirectoryFileHeader(object) ==
  LET extraFields == serializeExtraFields(object.extraFields)
  IN  IF ~(/\ InRange16(object.versionMadeBy)
           /\ InRange16(object.versionNeededToExtract)
           /\ InRange16(object.generalPurposeBitFlag)
           /\ InRange16(object.compressionMethod)
           /\ InRange16(object.fileLastModificationTime)
           /\ InRange16(object.fileLastModificationDate)
           /\ InRange32(object.crc32)
           /\ InRange32(object.compressedSize)
           /\ InRange32(object.uncompressedSize)
           /\ InRange16(Len(object.fileName))
           /\ InRange16(Len(extraFields))
           /\ InRange16(Len(object.comment))
           /\ InRange16(object.diskNumberStart)
           /\ InRange16(object.internalFileAttributes)
           /\ InRange32(object.externalFileAttributes)
           /\ InRange32(object.relativeOffsetOfLocalHeader))
      THEN Err("ERR_OUT_OF_RANGE")
      ELSE Ok(writeUInt32LE(CentralDirectoryFileHeaderSignature)
              \o writeUInt16LE(object.versionMadeBy)
              \o writeUInt16LE(object.versionNeededToExtract)
              \o writeUInt16LE(object.generalPurposeBitFlag)
              \o writeUInt16LE(object.compressionMethod)
              \o writeUInt16LE(object.fileLastModificationTime)
              \o writeUInt16LE(object.fileLastModificationDate)
              \o writeUInt32LE(object.crc32)
              \o writeUInt32LE(object.compressedSize)
              \o writeUInt32LE(object.uncompressedSize)
              \o writeUInt16LE(Len(object.fileName))
              \o writeUInt16LE(Len(extraFields))
              \o writeUInt16LE(Len(object.comment))
              \o writeUInt16LE(object.diskNumberStart)
              \o writeUInt16LE(object.internalFileAttributes)
              \o writeUInt32LE(object.externalFileAttributes)
              \o writeUInt32LE(object.relativeOffsetOfLocalHeader)
              \o object.fileName
              \o extraFields
              \o object.comment)

serializeEndOfCentralDirectoryRecord(object) ==
  IF ~(/\ InRange16(object.diskNumber)
       /\ InRange16(object.centralDirectoryDiskNumber)
       /\ InRange16W(object.numberOfEntriesOnDisk)
       /\ InRange16W(object.numberOfEntries)
       /\ InRange32(object.sizeOfCentralDirectory)
       /\ InRange32(object.centralDirectoryOffset))
  THEN Err("ERR_OUT_OF_RANGE")
  ELSE Ok(writeUInt32LE(EndOfCentralDirectoryRecordSignature)
          \o writeUInt16LE(object.diskNumber)
          \o writeUInt16LE(object.centralDirectoryDiskNumber)
          \o writeUInt16LE(object.numberOfEntriesOnDisk[1])
          \o writeUInt16LE(object.numberOfEntries[1])
          \o writeUInt32LE(object.sizeOfCentralDirectory)
          \o writeUInt32LE(object.centralDirectoryOffset)
          \* bytes 20..21 of Buffer.allocUnsafe(22) are never written
          \o object.allocUnsafe
          \o object.comment)

serializeZip64EndOfCentralDirectoryRecord(object) ==
  IF ~(/\ InRange16(object.versionMadeBy)
       /\ InRange16(object.versionNeededToExtract)
       /\ InRange32(object.diskNumber)
       /\ InRange32(object.centralDirectoryDiskNumber))
  THEN Err("ERR_OUT_OF_RANGE")
  ELSE Ok(writeUInt32LE(Zip64EndOfCentralDirectoryRecordSignature)
          \o writeBigUInt64LE(W(44 + Len(object.zip64ExtensibleDataSector)))
          \o writeUInt16LE(object.versionMadeBy)
          \o writeUInt16LE(object.versionNeededToExtract)
          \o writeUInt32LE(object.diskNumber)
          \o writeUInt32LE(object.centralDirectoryDiskNumber)
          \o writeBigUInt64LE(object.numberOfEntriesOnDisk)
          \o writeBigUInt64LE(object.numberOfEntries)
          \o writeBigUInt64LE(object.sizeOfCentralDirectory)
          \o writeBigUInt64LE(object.centralDirectoryOffset)
          \o object.zip64ExtensibleDataSector)

serializeZip64EndOfCentralDirectoryLocator(object) ==
  IF ~(/\ InRange32(object.zip64EndOfCentralDirectoryRecordDiskNumber)
       /\ InRange32(object.diskCount))
  THEN Err("ERR_OUT_OF_RANGE")
  ELSE Ok(writeUInt32LE(Zip64EndOfCentralDirectoryLocatorSignature)
          \o writeUInt32LE(object.zip64EndOfCentralDirectoryRecordDiskNumber)
          \o writeBigUInt64LE(object.zip64EndOfCentralDirectoryRecordOffset)
          \o writeUInt32LE(object.diskCount))

(***************************************************************************)
(* zip.js: pure helpers of the writer.                                     *)
(***************************************************************************)
\* Buffer.from(string): UTF-8 of a string of code units below 0x800
RECURSIVE BufferFrom(_)
BufferFrom(str) ==
  IF str = <<>> THEN <<>>
  ELSE (IF Head(str) < 128 THEN <<Head(str)>>
        ELSE IF Head(str) < 2048
          THEN <<192 + (Head(str) \div 64), 128 + (Head(str) % 64)>>
        ELSE <<224 + (Head(str) \div 4096), 128 + ((Head(str) \div 64) % 64),
               128 + (Head(str) % 64)>>)
       \o BufferFrom(Tail(str))

IsLetter(c) == (c >= 65 /\ c <= 90) \/ (c >= 97 /\ c <= 122)

\* metadataPath.replace(/\\/g, '/')
ReplaceBackslashes(path) == [i \in 1..Len(path) |-> IF path[i] = 92 THEN 47 ELSE path[i]]

\* metadataPath.split('/').indexOf('..') !== -1
HasDotDotSegment(path) ==
  \E i \in 1..Len(path) :
    /\ i + 1 <= Len(path)
    /\ path[i] = 46 /\ path[i + 1] = 46
    /\ (i = 1 \/ path[i - 1] = 47)
    /\ (i + 1 = Len(path) \/ path[i + 2] = 47)

\* a sanitizeMetadataPath that would test the path as given and replace the
\* backslashes last
sanitizeMetadataPathTestingFirst(metadataPath, isDirectory) ==
  IF metadataPath = <<>> THEN Err("empty metadataPath")
  ELSE LET path == ReplaceBackslashes(metadataPath)
           looksLikeDirectory == metadataPath[Len(metadataPath)] = 47
       IN  IF \/ (Len(metadataPath) >= 2 /\ IsLetter(metadataPath[1])
                                         /\ metadataPath[2] = 58)
              \/ metadataPath[1] = 47
           THEN Err("absolute path")
           ELSE IF HasDotDotSegment(metadataPath) THEN Err("invalid relative path")
           ELSE IF isDirectory
             THEN Ok(IF looksLikeDirectory THEN path ELSE path \o <<47>>)
           ELSE IF looksLikeDirectory THEN Err("file path cannot end with '/'")
           ELSE Ok(path)

sanitizeMetadataPath(metadataPath, isDirectory) ==
  IF metadataPath = <<>> THEN Err("empty metadataPath")
  ELSE LET path == ReplaceBackslashes(metadataPath)
           looksLikeDirectory == path[Len(path)] = 47
       IN  IF \/ (Len(path) >= 2 /\ IsLetter(path[1]) /\ path[2] = 58)
              \/ path[1] = 47
           THEN Err("absolute path")
           ELSE IF HasDotDotSegment(path) THEN Err("invalid relative path")
           ELSE IF isDirectory
             THEN Ok(IF looksLikeDirectory THEN path ELSE path \o <<47>>)
           ELSE IF looksLikeDirectory THEN Err("file path cannot end with '/'")
           ELSE Ok(path)

\* a dateToDosDateTime that would store getUTCMonth() as it is, counted from 0
dateToDosDateTimeMonthFromZero(date) ==
  [date |-> (date.date % 32)
            + (date.month % 16) * 32
            + ((date.year - 1980) % 128) * 512,
   time |-> (date.seconds \div 2)
            + (date.minutes % 64) * 32
            + (date.hours % 32) * 2048]

\* a Date is [year, month (0-based), date, hours, minutes, seconds], in UTC
dateToDosDateTime(date) ==
  [date |-> (date.date % 32)
            + ((date.month + 1) % 16) * 32
            + ((date.year - 1980) % 128) * 512,
   time |-> (date.seconds \div 2)
            + (date.minutes % 64) * 32
            + (date.hours % 32) * 2048]

createEntry(options) ==
  LET fileName == BufferFrom(options.fileName)
      comment == options.comment
      dosDateTime == dateToDosDateTime(options.mtime)
  IN  IF Len(fileName) > 65535 THEN Err("utf8 file name too long")
      ELSE IF options.mode < 0 \/ options.mode > 65535 THEN Err("invalid mode")
      ELSE IF Len(comment) > 65535 THEN Err("File comment is too large")
      ELSE Ok([id |-> options.id,
               fileName |-> fileName,
               lastModFileTime |-> dosDateTime.time,
               lastModFileDate |-> dosDateTime.date,
               externalFileAttributes |-> W32(options.mode, 0),
               crc32 |-> options.crc32,
               uncompressedSize |-> options.uncompressedSize,
               compressedSize |-> options.compressedSize,
               compressionMethod |-> IF options.compress THEN compressionMethods.deflate
                                     ELSE compressionMethods.none,
               crcAndFileSizeKnown |-> /\ options.crc32 # Undefined
                                       /\ options.uncompressedSize # Undefined
                                       /\ options.compressedSize # Undefined,
               forceZip64Format |-> options.forceZip64Format,
               comment |-> comment,
               relativeOffsetOfLocalHeader |-> Undefined])

\* getLocalFileHeader deciding the ZIP64 form without looking at crcAndFileSizeKnown
getLocalFileHeaderBySizeOnly(entry) ==
  LET useZip64Format == \/ entry.forceZip64Format
                        \/ WGe(entry.uncompressedSize, U32Max)
                        \/ WGe(entry.compressedSize, U32Max)
      sizeOf(x) == IF x = Undefined THEN WZero ELSE x
  IN  serializeLocalFileHeader(
        [versionNeededToExtract |-> IF useZip64Format THEN VERSION_NEEDED_TO_EXTRACT_ZIP64
                                    ELSE VERSION_NEEDED_TO_EXTRACT_UTF8,
         generalPurposeBitFlag |-> IF entry.crcAndFileSizeKnown
                                   THEN generalPurposeBitFlags.utf8
                                   ELSE generalPurposeBitFlags.utf8
                                        + generalPurposeBitFlags.unknownCrc32AndFileSizes,
         compressionMethod |-> entry.compressionMethod,
         fileLastModificationDate |-> entry.lastModFileDate,
         fileLastModificationTime |-> entry.lastModFileTime,
         crc32 |-> IF entry.crcAndFileSizeKnown THEN entry.crc32 ELSE WZero,
         compressedSize |-> IF useZip64Format THEN U32Max ELSE sizeOf(entry.compressedSize),
         uncompressedSize |-> IF useZip64Format THEN U32Max
                              ELSE sizeOf(entry.uncompressedSize),
         fileName |-> entry.fileName,
         extraFields |-> IF useZip64Format
                         THEN <<[id |-> 1,
                                 data |-> writeBigUInt64LE(sizeOf(entry.uncompressedSize))
                                          \o writeBigUInt64LE(sizeOf(entry.compressedSize))]>>
                         ELSE <<>>])

getLocalFileHeader(entry) ==
  LET useZip64Format == \/ entry.forceZip64Format
                        \/ ~entry.crcAndFileSizeKnown
                        \/ WGe(entry.uncompressedSize, U32Max)
                        \/ WGe(entry.compressedSize, U32Max)
      zeiefBuffer == IF entry.crcAndFileSizeKnown
                     THEN writeBigUInt64LE(entry.uncompressedSize)
                          \o writeBigUInt64LE(entry.compressedSize)
                     ELSE [i \in 1..16 |-> 0]
  IN  serializeLocalFileHeader(
        [versionNeededToExtract |-> IF useZip64Format THEN VERSION_NEEDED_TO_EXTRACT_ZIP64
                                    ELSE VERSION_NEEDED_TO_EXTRACT_UTF8,
         generalPurposeBitFlag |-> IF entry.crcAndFileSizeKnown
                                   THEN generalPurposeBitFlags.utf8
                                   ELSE generalPurposeBitFlags.utf8
                                        + generalPurposeBitFlags.unknownCrc32AndFileSizes,
         compressionMethod |-> entry.compressionMethod,
         fileLastModificationDate |-> entry.lastModFileDate,
         fileLastModificationTime |-> entry.lastModFileTime,
         crc32 |-> IF entry.crcAndFileSizeKnown THEN entry.crc32 ELSE WZero,
         compressedSize |-> IF useZip64Format THEN U32Max ELSE entry.compressedSize,
         uncompressedSize |-> IF useZip64Format THEN U32Max ELSE entry.uncompressedSize,
         fileName |-> entry.fileName,
         extraFields |-> IF useZip64Format THEN <<[id |-> 1, data |-> zeiefBuffer]>>
                         ELSE <<>>])

getCentralDirectoryRecord(entry) ==
  LET useZip64Format == \/ entry.forceZip64Format
                        \/ WGe(entry.uncompressedSize, U32Max)
                        \/ WGe(entry.compressedSize, U32Max)
                        \/ WGe(entry.relativeOffsetOfLocalHeader, U32Max)
  IN  IF useZip64Format /\ (\/ entry.uncompressedSize = Undefined
                            \/ entry.compressedSize = Undefined
                            \/ entry.relativeOffsetOfLocalHeader = Undefined)
      THEN Err("ERR_INVALID_ARG_TYPE")
      ELSE serializeCentralDirectoryFileHeader(
        [versionMadeBy |-> VERSION_MADE_BY,
         versionNeededToExtract |-> IF useZip64Format \/ ~entry.crcAndFileSizeKnown
                                    THEN VERSION_NEEDED_TO_EXTRACT_ZIP64
                                    ELSE VERSION_NEEDED_TO_EXTRACT_UTF8,
         generalPurposeBitFlag |-> IF entry.crcAndFileSizeKnown
                                   THEN generalPurposeBitFlags.utf8
                                   ELSE generalPurposeBitFlags.utf8
                                        + generalPurposeBitFlags.unknownCrc32AndFileSizes,
         compressionMethod |-> entry.compressionMethod,
         fileLastModificationDate |-> entry.lastModFileDate,
         fileLastModificationTime |-> entry.lastModFileTime,
         crc32 |-> entry.crc32,
         compressedSize |-> IF useZip64Format THEN U32Max ELSE entry.compressedSize,
         uncompressedSize |-> IF useZip64Format THEN U32Max ELSE entry.uncompressedSize,
         diskNumberStart |-> 0,
         internalFileAttributes |-> 0,
         externalFileAttributes |-> entry.externalFileAttributes,
         relativeOffsetOfLocalHeader |-> IF useZip64Format THEN U32Max
                                         ELSE entry.relativeOffsetOfLocalHeader,
         fileName |-> entry.fileName,
         extraFields |-> IF useZip64Format
                         THEN <<[id |-> 1,
                                 data |-> writeBigUInt64LE(entry.uncompressedSize)
                                          \o writeBigUInt64LE(entry.compressedSize)
                                          \o writeBigUInt64LE(entry.relativeOffsetOfLocalHeader)]>>
                         ELSE <<>>,
         comment |-> entry.comment])

getEndOfCentralDirectoryRecord(p) ==
  LET sizeOfCentralDirectory == WSub(p.cursor, p.offsetOfStartOfCentralDirectory)
      useZip64Format == \/ p.forceZip64Format
                        \/ WGe(p.entryCount, W(65535))
                        \/ WGe(sizeOfCentralDirectory, U32Max)
                        \/ WGe(p.offsetOfStartOfCentralDirectory, U32Max)
      normalEntryCount == IF p.forceZip64Format THEN W(65535) ELSE p.entryCount
      eocdrBuffer == serializeEndOfCentralDirectoryRecord(
        [diskNumber |-> 0,
         centralDirectoryDiskNumber |-> 0,
         numberOfEntriesOnDisk |-> normalEntryCount,
         numberOfEntries |-> normalEntryCount,
         sizeOfCentralDirectory |-> IF p.forceZip64Format THEN U32Max
                                    ELSE sizeOfCentralDirectory,
         centralDirectoryOffset |-> IF p.forceZip64Format THEN U32Max
                                    ELSE p.offsetOfStartOfCentralDirectory,
         comment |-> p.comment,
         allocUnsafe |-> p.allocUnsafe])
      zip64EocdrBuffer == serializeZip64EndOfCentralDirectoryRecord(
        [versionMadeBy |-> VERSION_MADE_BY,
         versionNeededToExtract |-> VERSION_NEEDED_TO_EXTRACT_ZIP64,
         diskNumber |-> WZero,
         centralDirectoryDiskNumber |-> WZero,
         numberOfEntriesOnDisk |-> p.entryCount,
         numberOfEntries |-> p.entryCount,
         sizeOfCentralDirectory |-> sizeOfCentralDirectory,
         centralDirectoryOffset |-> p.offsetOfStartOfCentralDirectory,
         zip64ExtensibleDataSector |-> EMPTY_BUFFER])
      zip64EocdlBuffer == serializeZip64EndOfCentralDirectoryLocator(
        [zip64EndOfCentralDirectoryRecordDiskNumber |-> WZero,
         zip64EndOfCentralDirectoryRecordOffset |-> p.cursor,
         diskCount |-> W(1)])
  IN  IF ~eocdrBuffer.ok THEN eocdrBuffer
      ELSE IF ~useZip64Format THEN eocdrBuffer
      ELSE IF ~zip64EocdrBuffer.ok THEN zip64EocdrBuffer
      ELSE IF ~zip64EocdlBuffer.ok THEN zip64EocdlBuffer
      ELSE Ok(zip64EocdrBuffer.v \o zip64EocdlBuffer.v \o eocdrBuffer.v)

(***************************************************************************)
(* cp437.js and the string decoding of node:buffer.  Strings are sequences *)
(* of code points below 65536.                                             *)
(***************************************************************************)
cp437 ==
  <<0, 9786, 9787, 9829, 9830, 9827, 9824, 8226, 9688, 9675, 9689, 9794,
     9792, 9834, 9835, 9788, 9658, 9668, 8597, 8252, 182, 167, 9644, 8616,
     8593, 8595, 8594, 8592, 8735, 8596, 9650, 9660, 32, 33, 34, 35,
     36, 37, 38, 39, 40, 41, 42, 43, 44, 45, 46, 47,
     48, 49, 50, 51, 52, 53, 54, 55, 56, 57, 58, 59,
     60, 61, 62, 63, 64, 65, 66, 67, 68, 69, 70, 71,
     72, 73, 74, 75, 76, 77, 78, 79, 80, 81, 82, 83,
     84, 85, 86, 87, 88, 89, 90, 91, 92, 93, 94, 95,
     96, 97, 98, 99, 100, 101, 102, 103, 104, 105, 106, 107,
     108, 109, 110, 111, 112, 113, 114, 115, 116, 117, 118, 119,
     120, 121, 122, 123, 124, 125, 126, 8962, 199, 252, 233, 226,
     228, 224, 229, 231, 234, 235, 232, 239, 238, 236, 196, 197,
     201, 230, 198, 244, 246, 242, 251, 249, 255, 214, 220, 162,
     163, 165, 8359, 402, 225, 237, 243, 250, 241, 209, 170, 186,
     191, 8976, 172, 189, 188, 161, 171, 187, 9617, 9618, 9619, 9474,
     9508, 9569, 9570, 9558, 9557, 9571, 9553, 9559, 9565, 9564, 9563, 9488,
     9492, 9524, 9516, 9500, 9472, 9532, 9566, 9567, 9562, 9556, 9577, 9574,
     9568, 9552, 9580, 9575, 9576, 9572, 9573, 9561, 9560, 9554, 9555, 9579,
     9578, 9496, 9484, 9608, 9604, 9612, 9616, 9600, 945, 223, 915, 960,
     931, 963, 181, 964, 934, 920, 937, 948, 8734, 966, 949, 8745,
     8801, 177, 8805, 8804, 8992, 8993, 247, 8776, 176, 8729, 183, 8730,
     8319, 178, 9632, 160 >>

RECURSIVE decodeCp437(_)
decodeCp437(buffer) ==
  IF buffer = <<>> THEN <<>>
  ELSE <<cp437[Head(buffer) + 1]>> \o decodeCp437(Tail(buffer))

IsContinuation(b) == b >= 128 /\ b < 192

\* buffer.toString(): UTF-8 decoding, an ill-formed byte giving U+FFFD
RECURSIVE toString(_)
toString(buffer) ==
  IF buffer = <<>> THEN <<>>
  ELSE LET b == Head(buffer)
       IN  IF b < 128 THEN <<b>> \o toString(Tail(buffer))
           ELSE IF b >= 194 /\ b < 224 /\ Len(buffer) >= 2 /\ IsContinuation(buffer[2])
             THEN <<(b - 192) * 64 + (buffer[2] - 128)>>
                  \o toString(SubSeq(buffer, 3, Len(buffer)))
           ELSE IF b >= 224 /\ b < 240 /\ Len(buffer) >= 3 /\ IsContinuation(buffer[2])
                   /\ IsContinuation(buffer[3])
                   /\ (b - 224) * 4096 + (buffer[2] - 128) * 64 >= 2048
             THEN <<(b - 224) * 4096 + (buffer[2] - 128) * 64 + (buffer[3] - 128)>>
                  \o toString(SubSeq(buffer, 4, Len(buffer)))
           ELSE <<65533>> \o toString(Tail(buffer))

(***************************************************************************)
(* read.js: the parsers of the reader.  A handle is the byte sequence of   *)
(* the archive (fromBuffer).                                               *)
(***************************************************************************)
\* Number(x) of a wide number, for an index into a buffer of length n: n when beyond it
WClamp(a, n) == IF WIsSmall(a) /\ WNum(a) < n THEN WNum(a) ELSE n

\* BigInt(n) of a small number: a negative bigint -n is held as <<-n>>
BigInt(n) == IF n < 0 THEN <<n>> ELSE W(n)
IsNegative(position) == Len(position) = 1

read(handle, position, length) ==
  IF IsNegative(position)
  THEN IF Len(handle) < length + position[1]
       THEN Err("unexpected EOF")
       ELSE Ok(subarray(handle, position[1], position[1] + length))
  ELSE IF WLt(W(Len(handle)), WAdd(W(length), position))
  THEN Err("unexpected EOF")
  ELSE Ok(subarray(handle, WNum(position), WNum(position) + length))

RECURSIVE parseExtraFields(_, _, _)
parseExtraFields(buffer, start, end) ==
  IF ~(start < end) THEN Ok(<<>>)
  ELSE IF end - start < 4
    THEN Err("extra field header exceeds extra field buffer size")
  ELSE LET id == readUInt16LE(buffer, start)
           size == readUInt16LE(buffer, start + 2)
           rest == parseExtraFields(buffer, start + 4 + size, end)
       IN  IF start + 4 + size > end
           THEN Err("extra field length exceeds extra field buffer size")
           ELSE IF ~rest.ok THEN rest
           ELSE Ok(<<[id |-> id, data |-> subarray(buffer, start + 4, start + 4 + size)]>>
                   \o rest.v)

readLocalFileHeader(handle, offset) ==
  LET buffer == read(handle, offset, 30)
      fileNameLength == readUInt16LE(buffer.v, 26)
      extraFieldsLength == readUInt16LE(buffer.v, 28)
      rest == read(handle, WAdd(offset, W(30)), fileNameLength + extraFieldsLength)
      extraFields == parseExtraFields(rest.v, fileNameLength, Len(rest.v))
  IN  IF ~buffer.ok THEN buffer
      ELSE IF readUInt32LE(buffer.v, 0) # LocalFileHeaderSignature
        THEN Err("invalid local file header signature")
      ELSE IF ~rest.ok THEN rest
      ELSE IF ~extraFields.ok THEN extraFields
      ELSE Ok([versionNeededToExtract |-> readUInt16LE(buffer.v, 4),
               generalPurposeBitFlag |-> readUInt16LE(buffer.v, 6),
               compressionMethod |-> readUInt16LE(buffer.v, 8),
               fileLastModificationTime |-> readUInt16LE(buffer.v, 10),
               fileLastModificationDate |-> readUInt16LE(buffer.v, 12),
               crc32 |-> readUInt32LE(buffer.v, 14),
               compressedSize |-> readUInt32LE(buffer.v, 18),
               uncompressedSize |-> readUInt32LE(buffer.v, 22),
               fileNameLength |-> fileNameLength,
               extraFieldsLength |-> extraFieldsLength,
               fileName |-> subarray(rest.v, 0, fileNameLength),
               extraFields |-> extraFields.v])

readCentralDirectoryFileHeader(handle, offset) ==
  LET buffer == read(handle, offset, 46)
      fileNameLength == readUInt16LE(buffer.v, 28)
      extraFieldsLength == readUInt16LE(buffer.v, 30)
      commentLength == readUInt16LE(buffer.v, 32)
      rest == read(handle, WAdd(offset, W(46)),
                   fileNameLength + extraFieldsLength + commentLength)
      extraFields == parseExtraFields(rest.v, fileNameLength,
                                      fileNameLength + extraFieldsLength)
  IN  IF ~buffer.ok THEN buffer
      ELSE IF readUInt32LE(buffer.v, 0) # CentralDirectoryFileHeaderSignature
        THEN Err("invalid central directory file header signature")
      ELSE IF ~rest.ok THEN rest
      ELSE IF ~extraFields.ok THEN extraFields
      ELSE Ok([versionMadeBy |-> readUInt16LE(buffer.v, 4),
               versionNeededToExtract |-> readUInt16LE(buffer.v, 6),
               generalPurposeBitFlag |-> readUInt16LE(buffer.v, 8),
               compressionMethod |-> readUInt16LE(buffer.v, 10),
               fileLastModificationTime |-> readUInt16LE(buffer.v, 12),
               fileLastModificationDate |-> readUInt16LE(buffer.v, 14),
               crc32 |-> readUInt32LE(buffer.v, 16),
               compressedSize |-> readUInt32LE(buffer.v, 20),
               uncompressedSize |-> readUInt32LE(buffer.v, 24),
               fileNameLength |-> fileNameLength,
               extraFieldsLength |-> extraFieldsLength,
               commentLength |-> commentLength,
               diskNumberStart |-> readUInt16LE(buffer.v, 34),
               internalFileAttributes |-> readUInt16LE(buffer.v, 36),
               externalFileAttributes |-> readUInt32LE(buffer.v, 38),
               relativeOffsetOfLocalHeader |-> readUInt32LE(buffer.v, 42),
               fileName |-> subarray(rest.v, 0, fileNameLength),
               extraFields |-> extraFields.v,
               comment |-> subarray(rest.v, fileNameLength + extraFieldsLength,
                                    Len(rest.v))])

(***************************************************************************)
(* unzip.js: opening an archive, iterating its central directory, opening  *)
(* an entry's data.                                                        *)
(***************************************************************************)
\* the arguments of Date.UTC(), months counted from 0
dosDateTimeToDate(date, time) ==
  [year |-> ((date \div 512) % 128) + 1980,
   month |-> ((date \div 32) % 16) - 1,
   date |-> date % 32,
   hours |-> (time \div 2048) % 32,
   minutes |-> (time \div 32) % 64,
   seconds |-> (time % 32) * 2]

eocdrWithoutCommentSize == 22
maxCommentSize == 65535

Min(a, b) == IF a < b THEN a ELSE b

fromRandomAccessReader(handle, decodeStrings) ==
  LET totalSize == Len(handle)
      bufferSize == Min(totalSize, eocdrWithoutCommentSize + maxCommentSize)
      bufferReadStart == totalSize - bufferSize
      buffer == subarray(handle, bufferReadStart, bufferReadStart + bufferSize)
      found == {i \in 0..(bufferSize - eocdrWithoutCommentSize) :
                  readUInt32LE(buffer, i) = EndOfCentralDirectoryRecordSignature}
      i == CHOOSE k \in found : \A j \in found : j <= k
      eocdrBuffer == subarray(buffer, i, Len(buffer))
      diskNumber == readUInt16LE(eocdrBuffer, 4)
      entryCount == readUInt16LE(eocdrBuffer, 10)
      centralDirectoryOffset == readUInt32LE(eocdrBuffer, 16)
      commentLength == readUInt16LE(eocdrBuffer, 20)
      expectedCommentLength == Len(eocdrBuffer) - eocdrWithoutCommentSize
      comment == IF decodeStrings THEN decodeCp437(subarray(eocdrBuffer, 22, Len(eocdrBuffer)))
                 ELSE subarray(eocdrBuffer, 22, Len(eocdrBuffer))
      zip64EocdlOffset == bufferReadStart + i - 20
      zip64EocdlBuffer == read(handle, BigInt(zip64EocdlOffset), 20)
      zip64EocdrOffset == readBigUInt64LE(zip64EocdlBuffer.v, 8)
      zip64EocdrBuffer == read(handle, zip64EocdrOffset, 56)
  IN  IF found = {} THEN Err("end of central directory record signature not found")
      ELSE IF diskNumber # 0 THEN Err("multi-disk zip files are not supported")
      ELSE IF commentLength # expectedCommentLength THEN Err("invalid comment length")
      ELSE IF entryCount # 65535 /\ centralDirectoryOffset # U32Max
        THEN Ok([centralDirectoryOffset |-> centralDirectoryOffset,
                 fileSize |-> W(totalSize),
                 entryCount |-> W(entryCount),
                 comment |-> comment])
      ELSE IF ~zip64EocdlBuffer.ok THEN zip64EocdlBuffer
      \* readUInt32LE(0) of the buffer that was read
      ELSE IF ~HasBytes(zip64EocdlBuffer.v, 0, 4) THEN Err("ERR_OUT_OF_RANGE")
      ELSE IF readUInt32LE(zip64EocdlBuffer.v, 0) # Zip64EndOfCentralDirectoryLocatorSignature
        THEN Err("invalid zip64 end of central directory locator signature")
      ELSE IF ~zip64EocdrBuffer.ok THEN zip64EocdrBuffer
      ELSE IF readUInt32LE(zip64EocdrBuffer.v, 0) # Zip64EndOfCentralDirectoryRecordSignature
        THEN Err("invalid zip64 end of central directory record signature")
      ELSE Ok([centralDirectoryOffset |-> readBigUInt64LE(zip64EocdrBuffer.v, 48),
               fileSize |-> W(totalSize),
               entryCount |-> readBigUInt64LE(zip64EocdrBuffer.v, 32),
               comment |-> comment])

\* the data of the first extra field with this id, or Undefined
RECURSIVE FindExtraField(_, _)
FindExtraField(extraFields, id) ==
  IF extraFields = <<>> THEN Undefined
  ELSE IF Head(extraFields).id = id THEN <<Head(extraFields).data>>
  ELSE FindExtraField(Tail(extraFields), id)

\* the Info-ZIP Unicode Path loop: the name of the first field that passes the checks
RECURSIVE UnicodePath(_, _)
UnicodePath(extraFields, fileName) ==
  IF extraFields = <<>> THEN Undefined
  ELSE LET data == Head(extraFields).data
       IN  IF Head(extraFields).id = 28789 /\ Len(data) >= 6 /\ readUInt8(data, 0) = 1
              /\ crc32(fileName, WZero) = readUInt32LE(data, 1)
           THEN <<toString(subarray(data, 5, Len(data)))>>
           ELSE UnicodePath(Tail(extraFields), fileName)

\* readEntry, from the parsed header on
entryOf(centralDirectoryFileHeader, decodeStrings) ==
  LET isUtf8 == HasBit(centralDirectoryFileHeader.generalPurposeBitFlag,
                       generalPurposeBitFlags.utf8)
      Decode(buf) == IF ~decodeStrings THEN buf
                     ELSE IF isUtf8 THEN toString(buf) ELSE decodeCp437(buf)
      unicodePath == UnicodePath(centralDirectoryFileHeader.extraFields,
                                 centralDirectoryFileHeader.fileName)
      found == FindExtraField(centralDirectoryFileHeader.extraFields, 1)
      isMax(x) == x = U32Max
      c1 == IF isMax(centralDirectoryFileHeader.uncompressedSize) THEN 8 ELSE 0
      c2 == c1 + IF isMax(centralDirectoryFileHeader.compressedSize) THEN 8 ELSE 0
      c3 == c2 + IF isMax(centralDirectoryFileHeader.relativeOffsetOfLocalHeader) THEN 8 ELSE 0
      zip64 == \/ isMax(centralDirectoryFileHeader.uncompressedSize)
               \/ isMax(centralDirectoryFileHeader.compressedSize)
               \/ isMax(centralDirectoryFileHeader.relativeOffsetOfLocalHeader)
               \/ centralDirectoryFileHeader.diskNumberStart = 65535
      Field(x, c) == IF zip64 /\ isMax(x) THEN readBigUInt64LE(found[1], c) ELSE x
  IN  IF HasBit(centralDirectoryFileHeader.generalPurposeBitFlag,
                generalPurposeBitFlags.strongEncryption)
      THEN Err("strong encryption is not supported")
      ELSE IF zip64 /\ found = Undefined
        THEN Err("expected zip64 extended information extra field")
      ELSE IF zip64 /\ isMax(centralDirectoryFileHeader.uncompressedSize)
              /\ 8 > Len(found[1])
        THEN Err("zip64 extended information extra field does not include uncompressed size")
      ELSE IF zip64 /\ isMax(centralDirectoryFileHeader.compressedSize)
              /\ c1 + 8 > Len(found[1])
        THEN Err("zip64 extended information extra field does not include compressed size")
      ELSE IF zip64 /\ isMax(centralDirectoryFileHeader.relativeOffsetOfLocalHeader)
              /\ c2 + 8 > Len(found[1])
        THEN Err("zip64 extended information extra field does not include relative header offset")
      ELSE IF zip64 /\ isMax(centralDirectoryFileHeader.relativeOffsetOfLocalHeader)
              /\ c3 + 4 > Len(found[1])
        THEN Err("zip64 extended information extra field does not include disk number start")
      ELSE Ok(
        [centralDirectoryFileHeader |-> centralDirectoryFileHeader,
         fileName |-> IF decodeStrings /\ unicodePath # Undefined THEN unicodePath[1]
                      ELSE Decode(centralDirectoryFileHeader.fileName),
         comment |-> Decode(centralDirectoryFileHeader.comment),
         modificationDate |->
           dosDateTimeToDate(centralDirectoryFileHeader.fileLastModificationDate,
                             centralDirectoryFileHeader.fileLastModificationTime),
         uncompressedSize |-> Field(centralDirectoryFileHeader.uncompressedSize, 0),
         compressedSize |-> Field(centralDirectoryFileHeader.compressedSize, c1),
         relativeOffsetOfLocalHeader |->
           Field(centralDirectoryFileHeader.relativeOffsetOfLocalHeader, c2),
         diskNumberStart |->
           IF zip64 /\ isMax(centralDirectoryFileHeader.relativeOffsetOfLocalHeader)
           THEN readUInt32LE(found[1], c3)
           ELSE W(centralDirectoryFileHeader.diskNumberStart),
         encrypted |-> HasBit(centralDirectoryFileHeader.generalPurposeBitFlag,
                              generalPurposeBitFlags.encrypted),
         compressed |->
           IF centralDirectoryFileHeader.compressionMethod = compressionMethods.none
           THEN "false"
           ELSE IF centralDirectoryFileHeader.compressionMethod = compressionMethods.deflate
           THEN "true" ELSE "undefined"])

readEntry(handle, cursor, decodeStrings) ==
  LET header == readCentralDirectoryFileHeader(handle, cursor)
  IN  IF ~header.ok THEN header ELSE entryOf(header.v, decodeStrings)

\* entries(): the size of the header just yielded
entrySize(entry) ==
  46 + entry.centralDirectoryFileHeader.fileNameLength
     + entry.centralDirectoryFileHeader.extraFieldsLength
     + entry.centralDirectoryFileHeader.commentLength

Negative == <<-1>>
MaxSafeInteger == <<65535, 65535, 65535, 31>>
NoOptions ==
  [start |-> Undefined, end |-> Undefined, decompress |-> TRUE, decrypt |-> TRUE,
   validateData |-> TRUE]

\* createReadStream(handle, { start, end }) on a Buffer: the bytes the stream delivers
createReadStream(handle, start, end) ==
  IF WGe(start, MaxSafeInteger) \/ WGe(end, MaxSafeInteger)
  THEN Err("Buffers don't support bigints")
  ELSE Ok(subarray(handle, WClamp(start, Len(handle)), WClamp(end, Len(handle))))

\* openReadStream's pipeline [readStream, inflate, validation]: the bytes the last
\* stream delivers, or its error
streams(entry, options, compressionMethod, readStream) ==
  LET decompress == compressionMethod = compressionMethods.deflate /\ options.decompress
      inflated == IF decompress THEN inflateRaw(readStream) ELSE Ok(readStream)
      validate == options.validateData
                  /\ (compressionMethod = compressionMethods.none \/ decompress)
  IN  IF ~inflated.ok \/ ~validate THEN inflated
      ELSE IF WGt(W(Len(inflated.v)), entry.uncompressedSize)
      THEN Err("too many bytes in the stream")
      ELSE IF W(Len(inflated.v)) # entry.uncompressedSize
      THEN Err("not enough bytes in the stream")
      ELSE IF crc32(inflated.v, WZero) # entry.centralDirectoryFileHeader.crc32
      THEN Err("unexpected checksum")
      ELSE inflated

\* a variant that would take the lengths of the name and of the extra fields from the
\* central directory header
openDataAfterCentralHeaderLengths(handle, entry, options, localFileHeader) ==
  LET relativeStart == IF options.start # Undefined THEN options.start ELSE WZero
      relativeEnd == IF options.end # Undefined THEN options.end ELSE entry.compressedSize
      fileDataStart == WAdd(entry.relativeOffsetOfLocalHeader,
                            W(30 + entry.centralDirectoryFileHeader.fileNameLength
                                 + entry.centralDirectoryFileHeader.extraFieldsLength))
      readStream == createReadStream(handle, WAdd(fileDataStart, relativeStart),
                                     WAdd(fileDataStart, relativeEnd))
  IN  IF localFileHeader.compressionMethod # compressionMethods.none
         /\ localFileHeader.compressionMethod # compressionMethods.deflate
      THEN Err("unsupported compression method")
      ELSE IF ~readStream.ok THEN readStream
      ELSE streams(entry, options, localFileHeader.compressionMethod, readStream.v)

\* openReadStream, from the parsed local file header on
openData(handle, entry, options, localFileHeader) ==
  LET relativeStart == IF options.start # Undefined THEN options.start ELSE WZero
      relativeEnd == IF options.end # Undefined THEN options.end ELSE entry.compressedSize
      fileDataStart == WAdd(entry.relativeOffsetOfLocalHeader,
                            W(30 + localFileHeader.fileNameLength
                                 + localFileHeader.extraFieldsLength))
      readStream == createReadStream(handle, WAdd(fileDataStart, relativeStart),
                                     WAdd(fileDataStart, relativeEnd))
  IN  IF localFileHeader.compressionMethod # compressionMethods.none
         /\ localFileHeader.compressionMethod # compressionMethods.deflate
      THEN Err("unsupported compression method")
      ELSE IF ~readStream.ok THEN readStream
      ELSE streams(entry, options, localFileHeader.compressionMethod, readStream.v)

\* openReadStream: the bytes the returned stream delivers, or the error of the call or
\* of the stream
openReadStream(handle, entry, options) ==
  LET ranged == options.start # Undefined \/ options.end # Undefined
      localFileHeader == readLocalFileHeader(handle, entry.relativeOffsetOfLocalHeader)
  IN  IF ranged /\ entry.compressed = "true" /\ options.decompress
      THEN Err("start/end range not allowed for compressed entry without options.decompress === false")
      ELSE IF ranged /\ entry.encrypted /\ options.decrypt
      THEN Err("start/end range not allowed for encrypted entry without options.decrypt === false")
      ELSE IF options.start = Negative THEN Err("options.start < 0")
      ELSE IF options.start # Undefined /\ WGt(options.start, entry.compressedSize)
      THEN Err("options.start > entry.compressedSize")
      ELSE IF options.end = Negative THEN Err("options.end < 0")
      ELSE IF options.end # Undefined /\ WGt(options.end, entry.compressedSize)
      THEN Err("options.end > entry.compressedSize")
      ELSE IF options.end # Undefined /\ options.start # Undefined
              /\ WLt(options.end, options.start)
      THEN Err("options.end < options.start")
      ELSE IF ~localFileHeader.ok THEN localFileHeader
      ELSE openData(handle, entry, options, localFileHeader.v)

(***************************************************************************)
(* The writer (class Zip) and its callers.                                 *)
(*                                                                         *)
(* ops is the list of calls issued on the writer, in call order; ops[i]    *)
(* holds the promise the call returned (st), the promise it was chained on *)
(* (pred; 0 is the constructor's Promise.resolve()) and the locals of its  *)
(* queued callback.  out is the list of chunks accepted by push(), each    *)
(* tagged with the call that pushed it.                                    *)
(***************************************************************************)
VARIABLES cursorSeed, queue, outputStreamCursor, entries,
          offsetOfStartOfCentralDirectory, out, stream, ops, rd

vars == <<cursorSeed, queue, outputStreamCursor, entries,
          offsetOfStartOfCentralDirectory, out, stream, ops, rd>>
writerVars == <<cursorSeed, queue, outputStreamCursor, entries,
                offsetOfStartOfCentralDirectory, out, stream, ops>>

QueueUndefined == -1

Epoch2024 == [year |-> 2024, month |-> 7, date |-> 27, hours |-> 21, minutes |-> 13, seconds |-> 26]

NoEntry ==
  [id |-> 0, fileName |-> <<>>, lastModFileTime |-> 0, lastModFileDate |-> 0,
   externalFileAttributes |-> WZero, crc32 |-> Undefined, uncompressedSize |-> Undefined,
   compressedSize |-> Undefined, compressionMethod |-> 0, crcAndFileSizeKnown |-> FALSE,
   forceZip64Format |-> FALSE, comment |-> <<>>, relativeOffsetOfLocalHeader |-> Undefined]

\* a read-side entry of some source archive, as handed to Zip.addEntry
SourceData == <<9>>

SourceEntry(usize, csize, offset) ==
  [fileName |-> <<115>>, comment |-> <<99>>,
   centralDirectoryFileHeader |->
     [generalPurposeBitFlag |-> 2048, externalFileAttributes |-> W32(33204, 0),
      crc32 |-> crc32(SourceData, WZero), compressionMethod |-> 8],
   uncompressedSize |-> usize, compressedSize |-> csize,
   relativeOffsetOfLocalHeader |-> offset, modificationDate |-> Epoch2024]

\* the arguments of a call: every call record has all fields
BaseArg ==
  [method |-> "", fileName |-> <<97>>, isDirectory |-> FALSE, comment |-> EMPTY_BUFFER,
   compress |-> TRUE, forceZip64Format |-> FALSE, mode |-> 33204, mtime |-> Epoch2024,
   buffer |-> <<>>, chunks |-> <<>>, streamError |-> FALSE,
   isFile |-> TRUE, statSize |-> WZero,
   compressedSize |-> Undefined, crc32 |-> Undefined, uncompressedSize |-> Undefined,
   source |-> SourceEntry(WZero, WZero, WZero), withStream |-> FALSE]

Body == <<<<1>>, <<2, 3>>>>

\* the compressed bytes of the source entry, as its file delivers them
RawBody == <<<<1, 9>>, <<0>>>>

\* the calls a client makes; an operation remembers its call by its index here
Calls ==
  << [BaseArg EXCEPT !.method = "addBuffer", !.buffer = <<1, 2>>, !.compress = FALSE],
     [BaseArg EXCEPT !.method = "addBuffer", !.buffer = <<1, 2>>],
     [BaseArg EXCEPT !.method = "addBuffer", !.buffer = <<1, 2>>, !.compress = FALSE,
                     !.mode = 65536],
     [BaseArg EXCEPT !.method = "addBuffer", !.buffer = <<1, 2>>, !.fileName = <<47, 97>>],
     [BaseArg EXCEPT !.method = "addFile", !.chunks = Body, !.statSize = W(3)],
     [BaseArg EXCEPT !.method = "addFile", !.isFile = FALSE],
     [BaseArg EXCEPT !.method = "addFileHandle", !.chunks = Body, !.statSize = W(3),
                     !.compress = FALSE],
     [BaseArg EXCEPT !.method = "addReadStream", !.chunks = Body],
     [BaseArg EXCEPT !.method = "addReadStream", !.chunks = Body, !.compress = FALSE],
     [BaseArg EXCEPT !.method = "addReadStream", !.chunks = <<<<1>>>>, !.streamError = TRUE],
     [BaseArg EXCEPT !.method = "addReadStream", !.chunks = Body, !.compress = FALSE,
                     !.compressedSize = W(3), !.uncompressedSize = W(3),
                     !.crc32 = crc32(<<1, 2, 3>>, WZero)],
     [BaseArg EXCEPT !.method = "addReadStream", !.chunks = Body, !.uncompressedSize = W(4)],
     [BaseArg EXCEPT !.method = "addReadStream", !.chunks = Body, !.mode = 65536],
     [BaseArg EXCEPT !.method = "addDirectory", !.fileName = <<100>>, !.isDirectory = TRUE,
                     !.mode = 16893, !.forceZip64Format = TRUE],
     [BaseArg EXCEPT !.method = "addDirectory", !.fileName = <<100>>, !.isDirectory = TRUE,
                     !.mode = 65536],
     [BaseArg EXCEPT !.method = "addEntry", !.source = SourceEntry(W(7), W(5), W(10)),
                     !.mode = -1],
     [BaseArg EXCEPT !.method = "addEntry", !.source = SourceEntry(W(1), W(3), W(10)),
                     !.mode = -1, !.withStream = TRUE, !.chunks = RawBody],
     [BaseArg EXCEPT !.method = "addEntry", !.source = SourceEntry(W(1), W(5), W(10)),
                     !.mode = -1, !.withStream = TRUE, !.chunks = RawBody],
     [BaseArg EXCEPT !.method = "addEntry", !.source = SourceEntry(W(7), W(5), W(10)),
                     !.mode = 65536],
     [BaseArg EXCEPT !.method = "addCentralDirectoryRecord"],
     [BaseArg EXCEPT !.method = "addCentralDirectoryRecord", !.forceZip64Format = TRUE],
     [BaseArg EXCEPT !.method = "addCentralDirectoryRecord",
                     !.comment = <<120, 80, 75, 5, 6>>],
     [BaseArg EXCEPT !.method = "end"],
     [BaseArg EXCEPT !.method = "addCentralDirectoryRecord",
                     !.comment = [k \in 1..65536 |-> 120]] >>

ArgsOf(method) == {c \in 1..Len(Calls) : Calls[c].method = method}

Seeds == {WZero, <<65496, 65535, 0, 0>>}

AddKinds == {"addBuffer", "addFile", "addFileHandle", "addReadStream", "addDirectory",
             "addEntry", "addEntryMeta"}
\* the calls whose queued callback goes through the module-level addEntry()
WriteKinds == {"addBuffer", "addFile", "addFileHandle", "addReadStream", "addDirectory",
               "addEntry"}
StreamKinds == {"addFile", "addFileHandle", "addReadStream", "addEntry"}

NewOp(kind, call, st, pred, prep, entry) ==
  [kind |-> kind, call |-> call, st |-> st, pred |-> pred, prep |-> prep, entry |-> entry,
   cursor0 |-> WZero, pos |-> 0, crc |-> WZero, usize |-> WZero, csize |-> WZero,
   removed |-> FALSE]

CountKind(kinds) == Cardinality({i \in 1..Len(ops) : ops[i].kind \in kinds})

\* a then-callback that would not wait for the promise it is chained on
PromiseStateEager(p) ==
  IF p = 0 THEN "resolved" ELSE IF ops[p].st = "rejected" THEN "rejected" ELSE "resolved"
\* the state of the promise a call was chained on
PromiseState(p) == IF p = 0 THEN "resolved" ELSE ops[p].st

\* comment.includes(eocdrSignatureBuffer)
Includes(buf, pat) ==
  \E i \in 0..(Len(buf) - Len(pat)) : SubSeq(buf, i + 1, i + Len(pat)) = pat

\* the reader a client runs over the finished output: the Unzip object, the state of
\* its entries() iterator, the entries yielded and the content of their data streams
NoReader ==
  [phase |-> "idle", centralDirectoryOffset |-> WZero, entryCount |-> WZero,
   comment |-> <<>>, cursor |-> WZero, entriesRead |-> WZero, yielded |-> <<>>,
   data |-> <<>>, err |-> ""]

Init ==
  /\ cursorSeed \in Seeds
  /\ queue = 0
  /\ outputStreamCursor = cursorSeed
  /\ entries = <<>>
  /\ offsetOfStartOfCentralDirectory = Undefined
  /\ out = <<>>
  /\ stream = [ended |-> FALSE, errored |-> FALSE, destroyed |-> FALSE]
  /\ ops = <<>>
  /\ rd = NoReader

(***************************************************************************)
(* Readable.push: a chunk is accepted unless the stream has ended or was   *)
(* destroyed; an empty chunk adds nothing.                                 *)
(***************************************************************************)
RECURSIVE Push(_, _, _)
Push(o, st, chunks) ==
  IF chunks = <<>> THEN o
  ELSE Push(IF st.ended \/ st.destroyed \/ Head(chunks).bytes = <<>> THEN o
            ELSE Append(o, Head(chunks)),
            st, Tail(chunks))

Chunk(kind, op, bytes) == [kind |-> kind, op |-> op, bytes |-> bytes]

\* a catch handler that would emit the error and leave the stream alive
FailedNotDestroyed(st) == [st EXCEPT !.errored = TRUE]

\* promise.catch(e => { self.emit('error', e); self.destroy(); })
Failed(st) == [st EXCEPT !.errored = TRUE, !.destroyed = TRUE]

(***************************************************************************)
(* The synchronous part of the public methods.                             *)
(***************************************************************************)
\* a call that throws synchronously, or whose async function rejects before it chains
\* anything: nothing of the writer changes
Threw ==
  UNCHANGED <<queue, outputStreamCursor, entries, offsetOfStartOfCentralDirectory,
              out, stream, ops>>

\* a call whose callback would be chained on the constructor's promise, not on the queue
EnqueueUnchained(kind, c, prep, entry) ==
  /\ ops' = Append(ops, NewOp(kind, c, "pending", 0, prep, entry))
  /\ queue' = Len(ops) + 1
  /\ UNCHANGED <<outputStreamCursor, entries, offsetOfStartOfCentralDirectory, out, stream>>

\* promise = self.queue.then(...); self.queue = promise
EnqueueChained(kind, c, prep, entry) ==
  /\ ops' = Append(ops, NewOp(kind, c, "pending", queue, prep, entry))
  /\ queue' = Len(ops) + 1
  /\ UNCHANGED <<outputStreamCursor, entries, offsetOfStartOfCentralDirectory, out, stream>>

\* async function addEntry(self, callback), up to "return promise"
addEntryFn(kind, c, prep, entry) ==
  IF queue = QueueUndefined
  THEN Threw
  ELSE EnqueueChained(kind, c, prep, entry)

CanAdd == CountKind(AddKinds) < MaxAdds

AddBuffer(c) ==
  /\ CanAdd
  /\ UNCHANGED <<cursorSeed, rd>>
  /\ IF ~sanitizeMetadataPath(Calls[c].fileName, FALSE).ok
        \/ Len(Calls[c].buffer) > 1073741823
     THEN Threw
     ELSE addEntryFn("addBuffer", c, IF Calls[c].compress THEN "pending" ELSE "none",
                     NoEntry)

AddFile(c) ==
  /\ CanAdd
  /\ UNCHANGED <<cursorSeed, rd>>
  /\ IF ~sanitizeMetadataPath(Calls[c].fileName, FALSE).ok
     THEN Threw
     ELSE addEntryFn("addFile", c, "pending", NoEntry)

AddFileHandle(c) ==
  /\ CanAdd
  /\ UNCHANGED <<cursorSeed, rd>>
  /\ IF ~sanitizeMetadataPath(Calls[c].fileName, FALSE).ok
     THEN Threw
     ELSE addEntryFn("addFileHandle", c, "pending", NoEntry)

\* the options createEntry() gets: the call's options with the sanitized path
EntryOptions(c, id) ==
  [Calls[c] EXCEPT !.fileName = sanitizeMetadataPath(@, Calls[c].isDirectory).v]
    @@ [id |-> id]

AddReadStream(c) ==
  /\ CanAdd
  /\ UNCHANGED <<cursorSeed, rd>>
  /\ LET path == sanitizeMetadataPath(Calls[c].fileName, FALSE)
         entry == createEntry(EntryOptions(c, Len(ops) + 1))
     IN  IF ~path.ok \/ ~entry.ok
         THEN Threw
         ELSE addEntryFn("addReadStream", c, "none", entry.v)

AddDirectory(c) ==
  /\ CanAdd
  /\ UNCHANGED <<cursorSeed, rd>>
  /\ IF ~sanitizeMetadataPath(Calls[c].fileName, TRUE).ok
     THEN Threw
     ELSE addEntryFn("addDirectory", c, "none", NoEntry)

\* Zip.addEntry: the pendingEntry built from a read-side entry (string name and comment,
\* no fileName/comment/mtime option; mode -1 stands for "no mode option")
\* the pending entry without the source's offset, whatever createReadStream is
pendingEntryWithoutOffset(arg, id) ==
  [NoEntry EXCEPT !.id = id,
                  !.fileName = BufferFrom(arg.source.fileName),
                  !.externalFileAttributes =
                     arg.source.centralDirectoryFileHeader.externalFileAttributes,
                  !.crc32 = arg.source.centralDirectoryFileHeader.crc32,
                  !.uncompressedSize = arg.source.uncompressedSize,
                  !.compressedSize = arg.source.compressedSize,
                  !.compressionMethod =
                     arg.source.centralDirectoryFileHeader.compressionMethod,
                  !.crcAndFileSizeKnown = TRUE,
                  !.forceZip64Format = arg.forceZip64Format]

pendingEntry(arg, id) ==
  LET entry == arg.source
      dosDateTime == dateToDosDateTime(entry.modificationDate)
  IN  [id |-> id,
       fileName |-> BufferFrom(entry.fileName),
       lastModFileTime |-> dosDateTime.time,
       lastModFileDate |-> dosDateTime.date,
       externalFileAttributes |-> IF arg.mode # -1 THEN W32(arg.mode, 0)
                                  ELSE entry.centralDirectoryFileHeader.externalFileAttributes,
       crc32 |-> entry.centralDirectoryFileHeader.crc32,
       uncompressedSize |-> entry.uncompressedSize,
       compressedSize |-> entry.compressedSize,
       compressionMethod |-> entry.centralDirectoryFileHeader.compressionMethod,
       crcAndFileSizeKnown |-> TRUE,
       forceZip64Format |-> arg.forceZip64Format,
       comment |-> BufferFrom(entry.comment),
       relativeOffsetOfLocalHeader |-> IF arg.withStream THEN Undefined
                                       ELSE entry.relativeOffsetOfLocalHeader]

ZipAddEntry(c) ==
  /\ CanAdd
  /\ UNCHANGED <<cursorSeed, rd>>
  /\ IF Calls[c].mode # -1 /\ (Calls[c].mode < 0 \/ Calls[c].mode > 65535)
     THEN Threw
     ELSE IF Calls[c].withStream
     THEN addEntryFn("addEntry", c, "pending", pendingEntry(Calls[c], Len(ops) + 1))
     ELSE IF queue = QueueUndefined
     THEN Threw
     ELSE EnqueueChained("addEntryMeta", c, "none", pendingEntry(Calls[c], Len(ops) + 1))

\* an addCentralDirectoryRecord that would queue its callback without looking at the
\* comment
AddCentralDirectoryRecordUnchecked(c) ==
  /\ CountKind({"addCentralDirectoryRecord"}) < MaxFinalize
  /\ UNCHANGED <<cursorSeed, rd>>
  /\ IF queue = QueueUndefined
     THEN Threw
     ELSE EnqueueChained("addCentralDirectoryRecord", c, "none", NoEntry)

AddCentralDirectoryRecord(c) ==
  /\ CountKind({"addCentralDirectoryRecord"}) < MaxFinalize
  /\ UNCHANGED <<cursorSeed, rd>>
  /\ IF \/ queue = QueueUndefined
        \/ Len(Calls[c].comment) > 65535
        \/ Includes(Calls[c].comment, eocdrSignatureBuffer)
     THEN Threw
     ELSE EnqueueChained("addCentralDirectoryRecord", c, "none", NoEntry)

\* removeEntry(entry), entry being the value an earlier call's promise resolved with
IndexOf(es, id) ==
  IF \E k \in 1..Len(es) : es[k].id = id
  THEN (CHOOSE k \in 1..Len(es) : es[k].id = id) - 1
  ELSE -1

\* array.splice(start, 1); a negative start counts from the end of the array
Splice(es, start) ==
  LET at == IF start < 0 THEN Len(es) + start ELSE start
  IN  IF at < 0 \/ at >= Len(es) THEN es
      ELSE SubSeq(es, 1, at) \o SubSeq(es, at + 2, Len(es))

\* removeEntry without its test of entryIndex
RemoveEntryUnchecked(i) ==
  /\ ops[i].removed \/ Cardinality({k \in 1..Len(ops) : ops[k].removed}) < MaxRemoves
  /\ ops[i].kind \in AddKinds
  /\ ops[i].st = "resolved"
  /\ entries' = Splice(entries, IndexOf(entries, i))
  /\ ops' = [ops EXCEPT ![i].removed = TRUE]
  /\ UNCHANGED <<cursorSeed, queue, outputStreamCursor, offsetOfStartOfCentralDirectory,
                 out, stream, rd>>

RemoveEntry(i) ==
  /\ ops[i].removed \/ Cardinality({k \in 1..Len(ops) : ops[k].removed}) < MaxRemoves
  /\ ops[i].kind \in AddKinds
  /\ ops[i].st = "resolved"
  /\ LET entryIndex == IndexOf(entries, i)
     IN  entries' = IF entryIndex # -1 THEN Splice(entries, entryIndex) ELSE entries
  /\ ops' = [ops EXCEPT ![i].removed = TRUE]
  /\ UNCHANGED <<cursorSeed, queue, outputStreamCursor, offsetOfStartOfCentralDirectory,
                 out, stream, rd>>

\* an end() that would chain the push of the marker and leave this.queue in place
EndKeepingQueue(c) ==
  /\ queue # QueueUndefined
  /\ ops' = Append(ops, NewOp("end", c, "pending", queue, "none", NoEntry))
  /\ UNCHANGED <<cursorSeed, queue, outputStreamCursor, entries,
                 offsetOfStartOfCentralDirectory, out, stream, rd>>

End(c) ==
  /\ IF queue = QueueUndefined
     THEN UNCHANGED ops
     ELSE ops' = Append(ops, NewOp("end", c, "pending", queue, "none", NoEntry))
  /\ queue' = QueueUndefined
  /\ UNCHANGED <<cursorSeed, outputStreamCursor, entries, offsetOfStartOfCentralDirectory,
                 out, stream, rd>>

(***************************************************************************)
(* The queued callbacks.                                                   *)
(***************************************************************************)
\* the callback each add method hands to addEntry(): the entry it returns, or its throw
Callback(i) ==
  LET op == ops[i]
      arg == Calls[op.call]
      options == EntryOptions(op.call, i)
  IN  CASE op.kind = "addBuffer" ->
             createEntry([options EXCEPT
                            !.compressedSize = W(Len(IF arg.compress THEN deflateRaw(arg.buffer)
                                                     ELSE arg.buffer)),
                            !.crc32 = crc32(arg.buffer, WZero),
                            !.uncompressedSize = W(Len(arg.buffer))])
        [] op.kind \in {"addFile", "addFileHandle"} ->
             IF ~arg.isFile THEN Err("not a file")
             ELSE createEntry([options EXCEPT !.uncompressedSize = arg.statSize])
        [] op.kind = "addDirectory" ->
             createEntry([options EXCEPT !.compress = FALSE, !.compressedSize = WZero,
                                         !.crc32 = WZero, !.uncompressedSize = WZero])
        [] OTHER -> Ok(op.entry)

\* the then-callback of a promise chained on a rejected promise never runs; the chained
\* promise rejects and, where the method attached one, its catch handler runs
Skip(i) ==
  /\ ops[i].st = "pending"
  /\ PromiseState(ops[i].pred) \in {"rejected"}
  /\ ops' = [ops EXCEPT ![i].st = "rejected"]
  /\ stream' = IF ops[i].kind \in WriteKinds \cup {"addCentralDirectoryRecord"}
               THEN Failed(stream) ELSE stream
  /\ UNCHANGED <<cursorSeed, queue, outputStreamCursor, entries,
                 offsetOfStartOfCentralDirectory, out, rd>>

\* the asynchronous preparation made outside the queue settles: fs open/stat,
\* zlib.deflateRaw's callback, createReadStream({ decompress: false })
PrepDone(i) ==
  /\ ops[i].st = "pending"
  /\ ops[i].prep = "pending"
  /\ ops' = [ops EXCEPT ![i].prep = "done"]
  /\ UNCHANGED <<cursorSeed, queue, outputStreamCursor, entries,
                 offsetOfStartOfCentralDirectory, out, stream, rd>>

\* addEntry()'s then-callback, from "await callback()" to "await write()"
Begin(i) ==
  /\ ops[i].kind \in WriteKinds
  /\ ops[i].st = "pending"
  /\ PromiseState(ops[i].pred) = "resolved"
  /\ ops[i].prep # "pending"
  /\ UNCHANGED <<cursorSeed, queue, entries, offsetOfStartOfCentralDirectory, rd>>
  /\ LET cb == Callback(i)
         entry == [cb.v EXCEPT !.relativeOffsetOfLocalHeader = outputStreamCursor]
         header == getLocalFileHeader(entry)
         cursor == WAdd(outputStreamCursor, W(Len(header.v)))
         buffer == IF Calls[ops[i].call].compress THEN deflateRaw(Calls[ops[i].call].buffer)
                   ELSE Calls[ops[i].call].buffer
     IN  IF ~cb.ok
         THEN /\ ops' = [ops EXCEPT ![i].st = "rejected"]
              /\ stream' = Failed(stream)
              /\ UNCHANGED <<outputStreamCursor, out>>
         ELSE IF ~header.ok
         THEN /\ ops' = [ops EXCEPT ![i].st = "rejected", ![i].entry = entry]
              /\ stream' = Failed(stream)
              /\ UNCHANGED <<outputStreamCursor, out>>
         ELSE /\ ops' = [ops EXCEPT ![i].st = "running", ![i].entry = entry,
                                    ![i].cursor0 = cursor]
              /\ UNCHANGED stream
              /\ IF ops[i].kind = "addBuffer"
                 THEN \* write() is writeBuffer(self, buffer)
                      /\ out' = Push(out, stream, <<Chunk("lfh", i, header.v),
                                                    Chunk("data", i, buffer)>>)
                      /\ outputStreamCursor' = WAdd(cursor, W(Len(buffer)))
                 ELSE /\ out' = Push(out, stream, <<Chunk("lfh", i, header.v)>>)
                      /\ outputStreamCursor' = cursor

\* the stream that the source entry's createReadStream(options) returns: the raw
\* bytes of the entry, inflated when asked to decompress a deflated entry
sourceCreateReadStream(arg, options) ==
  IF /\ options.decompress
     /\ arg.source.centralDirectoryFileHeader.compressionMethod = compressionMethods.deflate
  THEN <<inflateRaw(Concat(arg.chunks)).v>>
  ELSE arg.chunks

DecompressingOptions == [decompress |-> TRUE]

\* Zip.addEntry: createReadStream({ decompress: false })
RawCopyOptions == [decompress |-> FALSE]

\* the stream that call i's write() reads
readStream(i) ==
  IF ops[i].kind = "addEntry"
  THEN sourceCreateReadStream(Calls[ops[i].call], RawCopyOptions)
  ELSE Calls[ops[i].call].chunks

\* one chunk of the body stream flows through the pipeline
\*   writeEntryStream: readStream -> crc/size tap [-> deflate -> counting sink that pushes]
\*   writeRawStream:   readStream -> counting sink that pushes
\* Without deflate the tap is the last stage of the pipeline: what it yields goes to
\* the PassThrough that pipeline() creates for a final generator and nobody reads,
\* so nothing is pushed to the output.
StreamChunk(i) ==
  /\ ops[i].kind \in StreamKinds
  /\ ops[i].st = "running"
  /\ ops[i].pos < Len(readStream(i))
  /\ UNCHANGED <<cursorSeed, queue, outputStreamCursor, entries,
                 offsetOfStartOfCentralDirectory, stream, rd>>
  /\ LET chunk == readStream(i)[ops[i].pos + 1]
     IN  IF ops[i].kind = "addEntry"
         THEN /\ ops' = [ops EXCEPT ![i].pos = @ + 1,
                                    ![i].csize = WAdd(@, W(Len(chunk)))]
              /\ out' = Push(out, stream, <<Chunk("data", i, chunk)>>)
         ELSE IF ops[i].entry.compressionMethod = compressionMethods.deflate
         THEN /\ ops' = [ops EXCEPT ![i].pos = @ + 1,
                                    ![i].crc = crc32(chunk, @),
                                    ![i].usize = WAdd(@, W(Len(chunk))),
                                    ![i].csize = WAdd(@, W(Len(deflateChunk(chunk))))]
              /\ out' = Push(out, stream, <<Chunk("data", i, deflateChunk(chunk))>>)
         ELSE /\ ops' = [ops EXCEPT ![i].pos = @ + 1,
                                    ![i].crc = crc32(chunk, @),
                                    ![i].usize = WAdd(@, W(Len(chunk)))]
              /\ UNCHANGED out

\* the body stream emits 'error': pipeline() rejects, and so does the queued promise
StreamError(i) ==
  /\ ops[i].kind \in StreamKinds
  /\ ops[i].st = "running"
  /\ ops[i].pos = Len(readStream(i))
  /\ Calls[ops[i].call].streamError
  /\ ops' = [ops EXCEPT ![i].st = "rejected"]
  /\ stream' = Failed(stream)
  /\ UNCHANGED <<cursorSeed, queue, outputStreamCursor, entries,
                 offsetOfStartOfCentralDirectory, out, rd>>

\* the body is over: the rest of writeEntryStream / writeRawStream after the pipeline,
\* then the rest of addEntry()'s then-callback
Finish(i) ==
  /\ ops[i].kind \in WriteKinds
  /\ ops[i].st = "running"
  /\ ops[i].kind \in StreamKinds =>
       ops[i].pos = Len(readStream(i)) /\ ~Calls[ops[i].call].streamError
  /\ UNCHANGED <<cursorSeed, queue, offsetOfStartOfCentralDirectory, rd>>
  /\ LET op == ops[i]
         e0 == op.entry
         isEntryStream == op.kind \in {"addFile", "addFileHandle", "addReadStream"}
         deflate == isEntryStream /\ e0.compressionMethod = compressionMethods.deflate
         \* the deflate stage flushes its last block into the counting sink
         flushed == IF deflate THEN <<Chunk("data", i, deflateEnd)>> ELSE <<>>
         streamCompressedSize == IF deflate THEN WAdd(op.csize, W(Len(deflateEnd)))
                                 ELSE op.usize
         crcBad == isEntryStream /\ e0.crc32 # Undefined /\ e0.crc32 # op.crc
         sizeBad == isEntryStream /\ e0.uncompressedSize # Undefined
                    /\ e0.uncompressedSize # op.usize
         e1 == IF isEntryStream
               THEN [e0 EXCEPT !.crc32 = IF @ = Undefined THEN op.crc ELSE @,
                               !.uncompressedSize = IF @ = Undefined THEN op.usize ELSE @]
               ELSE e0
         cursor1 == IF isEntryStream THEN WAdd(outputStreamCursor, streamCompressedSize)
                    ELSE IF op.kind = "addEntry" THEN WAdd(outputStreamCursor, op.csize)
                    ELSE outputStreamCursor
         compressedSize == WSub(cursor1, op.cursor0)
         compressedBad == e1.compressedSize # Undefined /\ compressedSize # e1.compressedSize
         e2 == [e1 EXCEPT !.compressedSize = IF @ = Undefined THEN compressedSize ELSE @]
         descriptor == serializeDataDescriptor([crc32 |-> e2.crc32,
                                                compressedSize |-> e2.compressedSize,
                                                uncompressedSize |-> e2.uncompressedSize])
     IN  IF crcBad \/ sizeBad
         THEN /\ ops' = [ops EXCEPT ![i].st = "rejected"]
              /\ stream' = Failed(stream)
              /\ out' = Push(out, stream, flushed)
              /\ UNCHANGED <<outputStreamCursor, entries>>
         ELSE IF compressedBad \/ (~e2.crcAndFileSizeKnown /\ ~descriptor.ok)
         THEN /\ ops' = [ops EXCEPT ![i].st = "rejected", ![i].entry = e2]
              /\ stream' = Failed(stream)
              /\ out' = Push(out, stream, flushed)
              /\ outputStreamCursor' = cursor1
              /\ UNCHANGED entries
         ELSE /\ ops' = [ops EXCEPT ![i].st = "resolved", ![i].entry = e2]
              /\ UNCHANGED stream
              /\ entries' = Append(entries, e2)
              /\ IF e2.crcAndFileSizeKnown
                 THEN /\ out' = Push(out, stream, flushed)
                      /\ outputStreamCursor' = cursor1
                 ELSE /\ out' = Push(out, stream, flushed \o <<Chunk("dd", i, descriptor.v)>>)
                      /\ outputStreamCursor' = WAdd(cursor1, W(Len(descriptor.v)))

\* Zip.addEntry without createReadStream: this.queue.then(async () => entries.push(...))
RunMeta(i) ==
  /\ ops[i].kind = "addEntryMeta"
  /\ ops[i].st = "pending"
  /\ PromiseState(ops[i].pred) = "resolved"
  /\ entries' = Append(entries, ops[i].entry)
  /\ ops' = [ops EXCEPT ![i].st = "resolved"]
  /\ UNCHANGED <<cursorSeed, queue, outputStreamCursor, offsetOfStartOfCentralDirectory,
                 out, stream, rd>>

\* what the two bytes of an allocUnsafe() buffer that the code never writes may hold
AllocUnsafe == {<<0, 0>>, <<7, 0>>}

\* entries.forEach(entry => writeBuffer(self, getCentralDirectoryRecord(entry))):
\* the headers written before the first throw, and whether one threw
RECURSIVE CentralDirectoryRecords(_)
CentralDirectoryRecords(es) ==
  IF es = <<>> THEN [ok |-> TRUE, v |-> <<>>]
  ELSE LET r == getCentralDirectoryRecord(Head(es))
           rest == CentralDirectoryRecords(Tail(es))
       IN  IF ~r.ok THEN [ok |-> FALSE, v |-> <<>>]
           ELSE [ok |-> rest.ok, v |-> <<r.v>> \o rest.v]

\* addCentralDirectoryRecord's then-callback
RunCentralDirectory(i) ==
  /\ ops[i].kind = "addCentralDirectoryRecord"
  /\ ops[i].st = "pending"
  /\ PromiseState(ops[i].pred) = "resolved"
  /\ UNCHANGED <<cursorSeed, queue, entries, rd>>
  /\ offsetOfStartOfCentralDirectory' = outputStreamCursor
  /\ \E uninitialized \in AllocUnsafe :
     LET records == CentralDirectoryRecords(entries)
         cursor == WAdd(outputStreamCursor, W(SumLen(records.v)))
         chunks == [k \in 1..Len(records.v) |-> Chunk("cd", i, records.v[k])]
         eocdr == getEndOfCentralDirectoryRecord(
                    [offsetOfStartOfCentralDirectory |-> outputStreamCursor,
                     forceZip64Format |-> Calls[ops[i].call].forceZip64Format,
                     comment |-> Calls[ops[i].call].comment,
                     cursor |-> cursor,
                     entryCount |-> W(Len(entries)),
                     allocUnsafe |-> uninitialized])
     IN  IF ~records.ok \/ ~eocdr.ok
         THEN /\ ops' = [ops EXCEPT ![i].st = "rejected"]
              /\ stream' = Failed(stream)
              /\ out' = Push(out, stream, chunks)
              /\ outputStreamCursor' = cursor
         ELSE /\ ops' = [ops EXCEPT ![i].st = "resolved"]
              /\ UNCHANGED stream
              /\ out' = Push(out, stream, chunks \o <<Chunk("eocd", i, eocdr.v)>>)
              /\ outputStreamCursor' = WAdd(cursor, W(Len(eocdr.v)))

\* end()'s then-callback: this.push(null)
RunEnd(i) ==
  /\ ops[i].kind = "end"
  /\ ops[i].st = "pending"
  /\ PromiseState(ops[i].pred) = "resolved"
  /\ ops' = [ops EXCEPT ![i].st = "resolved"]
  /\ stream' = [stream EXCEPT !.ended = TRUE]
  /\ UNCHANGED <<cursorSeed, queue, outputStreamCursor, entries,
                 offsetOfStartOfCentralDirectory, out, rd>>

(***************************************************************************)
(* A client reads the finished output back (fromBuffer of the collected    *)
(* chunks of an ended stream that was written from cursor 0).              *)
(***************************************************************************)
Archive == Concat([k \in 1..Len(out) |-> out[k].bytes])

FromBuffer ==
  /\ rd.phase = "idle"
  /\ stream.ended
  /\ cursorSeed = WZero
  /\ LET unzip == fromRandomAccessReader(Archive, TRUE)
     IN  rd' = IF unzip.ok
               THEN [rd EXCEPT !.phase = "open",
                               !.centralDirectoryOffset = unzip.v.centralDirectoryOffset,
                               !.entryCount = unzip.v.entryCount,
                               !.comment = unzip.v.comment,
                               !.cursor = unzip.v.centralDirectoryOffset]
               ELSE [rd EXCEPT !.phase = "failed", !.err = unzip.err]
  /\ UNCHANGED writerVars

\* a generator that would parse every header at the start of the central directory
EntriesNextWithoutAdvance ==
  /\ rd.phase = "open"
  /\ LET entry == readEntry(Archive, rd.centralDirectoryOffset, TRUE)
     IN  rd' = IF ~WLt(rd.entriesRead, rd.entryCount)
               THEN [rd EXCEPT !.phase = "done"]
               ELSE IF ~entry.ok
               THEN [rd EXCEPT !.phase = "failed", !.err = entry.err]
               ELSE [rd EXCEPT !.yielded = Append(@, entry.v),
                               !.entriesRead = WAdd(@, W(1))]
  /\ UNCHANGED writerVars

\* one step of the entries() generator
EntriesNext ==
  /\ rd.phase = "open"
  /\ LET entry == readEntry(Archive, rd.cursor, TRUE)
     IN  rd' = IF ~WLt(rd.entriesRead, rd.entryCount)
               THEN [rd EXCEPT !.phase = "done"]
               ELSE IF ~entry.ok
               THEN [rd EXCEPT !.phase = "failed", !.err = entry.err]
               ELSE [rd EXCEPT !.yielded = Append(@, entry.v),
                               !.cursor = WAdd(@, W(entrySize(entry.v))),
                               !.entriesRead = WAdd(@, W(1))]
  /\ UNCHANGED writerVars

\* the client calls the createReadStream yielded with the next entry and drains it
CreateReadStream ==
  /\ Len(rd.data) < Len(rd.yielded)
  /\ rd' = [rd EXCEPT !.data = Append(@, openReadStream(Archive,
                                                        rd.yielded[Len(rd.data) + 1],
                                                        NoOptions))]
  /\ UNCHANGED writerVars

ReaderNext ==
  \/ FromBuffer
  \/ EntriesNext
  \/ CreateReadStream

WriterNext ==
  \/ \E c \in ArgsOf("addBuffer") : AddBuffer(c)
  \/ \E c \in ArgsOf("addFile") : AddFile(c)
  \/ \E c \in ArgsOf("addFileHandle") : AddFileHandle(c)
  \/ \E c \in ArgsOf("addReadStream") : AddReadStream(c)
  \/ \E c \in ArgsOf("addDirectory") : AddDirectory(c)
  \/ \E c \in ArgsOf("addEntry") : ZipAddEntry(c)
  \/ \E c \in ArgsOf("addCentralDirectoryRecord") : AddCentralDirectoryRecord(c)
  \/ \E i \in 1..Len(ops) : RemoveEntry(i)
  \/ \E c \in ArgsOf("end") : End(c)
  \/ \E i \in 1..Len(ops) : Skip(i)
  \/ \E i \in 1..Len(ops) : PrepDone(i)
  \/ \E i \in 1..Len(ops) : Begin(i)
  \/ \E i \in 1..Len(ops) : StreamChunk(i)
  \/ \E i \in 1..Len(ops) : StreamError(i)
  \/ \E i \in 1..Len(ops) : Finish(i)
  \/ \E i \in 1..Len(ops) : RunMeta(i)
  \/ \E i \in 1..Len(ops) : RunCentralDirectory(i)
  \/ \E i \in 1..Len(ops) : RunEnd(i)

Next == WriterNext \/ ReaderNext

Spec == Init /\ [][Next]_vars

(***************************************************************************)
(* State functions the properties are stated with.                         *)
(***************************************************************************)
EntryChunkKinds == {"lfh", "data", "dd"}

\* the chunks of o pushed by call i with a kind among kinds, in order
ChunksOf(o, i, kinds) == SelectSeq(o, LAMBDA c : c.op = i /\ c.kind \in kinds)

BytesOf(chunks) == Concat([k \in 1..Len(chunks) |-> chunks[k].bytes])

\* the number of bytes pushed before chunk k
BytesBefore(k) == Len(BytesOf(SubSeq(out, 1, k - 1)))

\* the entries of the add calls issued before call i and not removed, in call order
RECURSIVE EntriesBefore(_)
EntriesBefore(i) ==
  IF i <= 1 THEN <<>>
  ELSE EntriesBefore(i - 1)
       \o (IF ops[i - 1].kind \in AddKinds /\ ~ops[i - 1].removed
           THEN <<ops[i - 1].entry>> ELSE <<>>)

Running == {i \in 1..Len(ops) : ops[i].st = "running"}
Rejected == {i \in 1..Len(ops) : ops[i].st = "rejected"}

\* call i's promise resolves in this step
Resolves(i) == ops[i].st # "resolved" /\ ops'[i].st = "resolved"

(***************************************************************************)
(* C1: whatever the interleaving of the asynchronous steps, when all calls *)
(* succeed the central directory lists the entries in the order their add  *)
(* calls were issued, minus the removed ones, and the byte groups of the   *)
(* entries appear in the output in that order.                             *)
(***************************************************************************)
BytesInCallOrder ==
  \A a, b \in 1..Len(out) :
    (a < b /\ out[a].kind \in EntryChunkKinds /\ out[b].kind \in EntryChunkKinds)
      => out[a].op <= out[b].op

EntriesInCallOrder ==
  \A a, b \in 1..Len(entries) : a < b => entries[a].id < entries[b].id

CentralDirectoryInCallOrder ==
  \A i \in 1..Len(ops) :
    (ops[i].kind = "addCentralDirectoryRecord" /\ Resolves(i))
      => /\ entries = EntriesBefore(i)
         /\ ChunksOf(out', i, {"cd"})
              = [k \in 1..Len(entries) |->
                   Chunk("cd", i, getCentralDirectoryRecord(entries[k]).v)]

C1_CallOrder ==
  /\ [](BytesInCallOrder /\ EntriesInCallOrder)
  /\ [][CentralDirectoryInCallOrder]_vars

\* a central directory of two entries was written, the first call having needed an
\* asynchronous preparation and the second none
C1_Witness ==
  \E i \in 1..Len(ops) :
    /\ ops[i].kind = "addCentralDirectoryRecord"
    /\ ops[i].st = "resolved"
    /\ Len(ChunksOf(out, i, {"cd"})) = 2
    /\ ops[1].prep = "done"
    /\ ops[2].kind \in AddKinds /\ ops[2].prep = "none"

(***************************************************************************)
(* C2: entry writes are mutually exclusive.  At most one call is between   *)
(* "local header pushed" and "entry appended"; the chunks of a call are    *)
(* contiguous in the output; a call's callback runs only when every call   *)
(* chained before it has resolved.                                         *)
(***************************************************************************)
ChunksContiguous ==
  \A a, b, c \in 1..Len(out) :
    (a < b /\ b < c /\ out[a].op = out[c].op) => out[b].op = out[a].op

C2_MutualExclusion ==
  /\ Cardinality(Running) <= 1
  /\ ChunksContiguous
  /\ \A i \in 1..Len(ops) :
       ops[i].st \in {"running", "resolved"}
         => \A j \in 1..(i - 1) : ops[j].st = "resolved"

\* a body is being streamed while a later call, whose preparation is over, waits
C2_Witness ==
  \E i, j \in 1..Len(ops) :
    /\ i < j
    /\ ops[i].st = "running" /\ ops[i].pos = 1
    /\ ops[j].kind \in WriteKinds /\ ops[j].st = "pending" /\ ops[j].prep = "done"

(***************************************************************************)
(* C3: whenever no body is in flight, the output cursor equals the cursor  *)
(* seed plus the number of bytes pushed to the output so far, on every     *)
(* write path and also after a body stream failed part-way.                *)
(***************************************************************************)
C3_CursorCountsPushedBytes ==
  Running = {} => outputStreamCursor = WAdd(cursorSeed, W(Len(BytesOf(out))))

(***************************************************************************)
(* C4: for addFile / addFileHandle / addReadStream with compress = false,  *)
(* the chunks of the body are pushed unchanged and in order between the    *)
(* local header and the data descriptor, and compressedSize =              *)
(* uncompressedSize = the number of body bytes pushed.                     *)
(***************************************************************************)
StoredStreamCalls ==
  {i \in 1..Len(ops) :
     /\ ops[i].kind \in {"addFile", "addFileHandle", "addReadStream"}
     /\ ops[i].st = "resolved"
     /\ ops[i].entry.compressionMethod = compressionMethods.none}

C4_StoredBodyPushedUnchanged ==
  \A i \in StoredStreamCalls :
    LET data == ChunksOf(out, i, {"data"})
    IN  /\ [k \in 1..Len(data) |-> data[k].bytes] = Calls[ops[i].call].chunks
        /\ ops[i].entry.compressedSize = W(Len(BytesOf(data)))
        /\ ops[i].entry.uncompressedSize = W(Len(BytesOf(data)))

(***************************************************************************)
(* C5: the relativeOffsetOfLocalHeader of every written entry equals the   *)
(* cursor seed plus the index in the output of the first byte of its local *)
(* file header, whatever entries precede it.                               *)
(***************************************************************************)
C5_OffsetIsIndexOfLocalHeader ==
  \A k \in 1..Len(out) :
    out[k].kind = "lfh"
      => ops[out[k].op].entry.relativeOffsetOfLocalHeader
           = WAdd(cursorSeed, W(BytesBefore(k)))

(***************************************************************************)
(* C6: once addCentralDirectoryRecord has been called the writer is        *)
(* finalized: no call issued after it succeeds, and the output holds       *)
(* nothing after the end of central directory record.                      *)
(***************************************************************************)
C6_NothingAfterEndOfCentralDirectory ==
  /\ \A a, b \in 1..Len(out) : (a < b /\ out[a].kind = "eocd") => out[b].kind = "eocd"
  /\ \A i, j \in 1..Len(ops) :
       (i < j /\ ops[i].kind = "addCentralDirectoryRecord") => ops[j].st # "resolved"

(***************************************************************************)
(* C7: when a queued operation fails, the error is emitted on the output   *)
(* stream and the stream is destroyed; from then on nothing is pushed, no  *)
(* entry is appended and no call resolves, whether it was queued before    *)
(* the failure or issued after it.                                         *)
(***************************************************************************)
FailureIsSurfaced == Rejected # {} => stream.errored /\ stream.destroyed

NothingAfterFailure ==
  stream.errored
    => /\ out' = out
       /\ Len(entries') <= Len(entries)
       /\ \A i \in 1..Len(ops') :
            ops'[i].st \in {"running", "resolved"}
              => i <= Len(ops) /\ ops[i].st = ops'[i].st

C7_FailureIsTerminal ==
  /\ []FailureIsSurfaced
  /\ [][NothingAfterFailure]_vars

\* after a failure that left bytes in the output, a call issued later and a central
\* directory were both rejected without running
C7_Witness ==
  /\ stream.errored
  /\ out # <<>>
  /\ \E i, j \in Rejected :
       /\ ops[i].kind = "addEntryMeta"
       /\ ops[j].kind = "addCentralDirectoryRecord"
       /\ ops[i].pred \in Rejected /\ ops[j].pred \in Rejected

(***************************************************************************)
(* C8: input-validation errors (name or comment too long, mode outside     *)
(* [0, 0xFFFF], invalid path, buffer too large) are raised synchronously   *)
(* by the add call, which queues nothing and leaves the writer unchanged:  *)
(* no queued call carries an input that fails validation.                  *)
(***************************************************************************)
InputIsValid(c) ==
  /\ sanitizeMetadataPath(Calls[c].fileName, Calls[c].isDirectory).ok
  /\ Calls[c].method = "addEntry" \/ createEntry(EntryOptions(c, 0)).ok
  /\ Calls[c].method = "addEntry"
       => Calls[c].mode = -1 \/ (Calls[c].mode >= 0 /\ Calls[c].mode <= 65535)

C8_ValidationIsSynchronous ==
  \A i \in 1..Len(ops) : ops[i].kind \in AddKinds => InputIsValid(ops[i].call)

(***************************************************************************)
(* C9: an archive written from cursor 0 with stored entries only (through  *)
(* addBuffer and through the streaming paths), finalized and ended, is     *)
(* opened and iterated without error and yields, in order, one entry per   *)
(* call with the call's name, uncompressedSize = compressedSize = the      *)
(* number of bytes, the CRC of the bytes, and a data stream delivering     *)
(* exactly the bytes.                                                      *)
(***************************************************************************)
StoredKinds == {"addBuffer", "addFile", "addFileHandle", "addReadStream"}

\* the bytes a call adds: its buffer or the chunks of its stream
Content(c) == Calls[c].buffer \o Concat(Calls[c].chunks)

StoredArchive ==
  /\ stream.ended
  /\ \A i \in 1..Len(ops) :
       /\ ops[i].st = "resolved"
       /\ ~ops[i].removed
       /\ ops[i].kind \in StoredKinds \cup {"addCentralDirectoryRecord", "end"}
       /\ ops[i].kind \in StoredKinds => ~Calls[ops[i].call].compress
  /\ \E i \in 1..Len(ops) :
       /\ ops[i].kind = "addCentralDirectoryRecord"
       /\ \A j \in 1..Len(ops) : ops[j].kind \in StoredKinds => j < i

ReadBack == rd.phase \in {"done", "failed"} /\ Len(rd.data) = Len(rd.yielded)

C9_StoredRoundTrip ==
  (StoredArchive /\ ReadBack)
    => /\ rd.phase = "done"
       /\ Len(rd.yielded) = Len(entries)
       /\ \A k \in 1..Len(rd.yielded) :
            LET c == ops[entries[k].id].call
            IN  /\ rd.yielded[k].fileName = Calls[c].fileName
                /\ rd.yielded[k].uncompressedSize = W(Len(Content(c)))
                /\ rd.yielded[k].compressedSize = W(Len(Content(c)))
                /\ rd.yielded[k].centralDirectoryFileHeader.crc32 = crc32(Content(c), WZero)
                /\ rd.data[k] = Ok(Content(c))

(***************************************************************************)
(* The central directory header of one entry, from the writer's            *)
(* getCentralDirectoryRecord to the reader's entries() step, for entries   *)
(* whose sizes and offset lie on either side of 0xFFFFFFFF.                *)
(***************************************************************************)
HeaderValues == {W(3), <<65534, 65535, 0, 0>>, U32Max, <<0, 0, 1, 0>>}

\* the entries the writer holds once their data is written
CDEntries ==
  {[NoEntry EXCEPT !.id = 1, !.fileName = <<97>>, !.crc32 = W(4242),
                   !.externalFileAttributes = W32(33204, 0),
                   !.uncompressedSize = u, !.compressedSize = c,
                   !.relativeOffsetOfLocalHeader = o,
                   !.forceZip64Format = f, !.crcAndFileSizeKnown = k] :
     u \in HeaderValues, c \in HeaderValues, o \in HeaderValues,
     f \in BOOLEAN, k \in BOOLEAN}

InitCD ==
  /\ cursorSeed = WZero
  /\ queue = 0
  /\ outputStreamCursor = WZero
  /\ entries \in {<<e>> : e \in CDEntries}
  /\ offsetOfStartOfCentralDirectory = Undefined
  /\ out = <<>>
  /\ stream = [ended |-> FALSE, errored |-> FALSE, destroyed |-> FALSE]
  /\ ops = <<>>
  /\ rd = NoReader

\* writeBuffer(self, getCentralDirectoryRecord(entry)) at cursor 0
SerializeHeader ==
  /\ out = <<>>
  /\ ~stream.destroyed
  /\ LET record == getCentralDirectoryRecord(entries[1])
     IN  IF record.ok
         THEN /\ out' = Push(out, stream, <<Chunk("cd", 0, record.v)>>)
              /\ outputStreamCursor' = WAdd(outputStreamCursor, W(Len(record.v)))
              /\ UNCHANGED stream
         ELSE /\ stream' = Failed(stream)
              /\ UNCHANGED <<out, outputStreamCursor>>
  /\ offsetOfStartOfCentralDirectory' = outputStreamCursor
  /\ UNCHANGED <<cursorSeed, queue, entries, ops, rd>>

\* new Unzip(handle, centralDirectoryOffset = 0, entryCount = 1, ...)
NewUnzip ==
  /\ rd.phase = "idle"
  /\ out # <<>>
  /\ rd' = [rd EXCEPT !.phase = "open", !.centralDirectoryOffset = WZero,
                      !.entryCount = W(1), !.cursor = WZero]
  /\ UNCHANGED writerVars

NextCD ==
  \/ SerializeHeader
  \/ NewUnzip
  \/ EntriesNext

SpecCD == InitCD /\ [][NextCD]_vars

Zip64Entry(entry) ==
  \/ entry.forceZip64Format
  \/ WGe(entry.uncompressedSize, U32Max)
  \/ WGe(entry.compressedSize, U32Max)
  \/ WGe(entry.relativeOffsetOfLocalHeader, U32Max)

IteratorStepped == rd.phase \in {"failed", "done"} \/ rd.entriesRead # WZero

\* C10: when an entry is written in ZIP64 form (forceZip64Format, or a size or the
\* local header offset at or above 0xFFFFFFFF), the reader's iterator step accepts
\* the central directory header the writer produced and yields the entry with the
\* uncompressedSize, compressedSize and relativeOffsetOfLocalHeader the writer
\* recorded, without an iterator error.
C10_Zip64HeaderRoundTrip ==
  (Len(entries) = 1 /\ Len(out) = 1 /\ IteratorStepped /\ Zip64Entry(entries[1]))
    => /\ rd.err = ""
       /\ Len(rd.yielded) = 1
       /\ rd.yielded[1].uncompressedSize = entries[1].uncompressedSize
       /\ rd.yielded[1].compressedSize = entries[1].compressedSize
       /\ rd.yielded[1].relativeOffsetOfLocalHeader = entries[1].relativeOffsetOfLocalHeader

(***************************************************************************)
(* The records that close the central directory.                           *)
(***************************************************************************)
StartsWith(buf, pat) == Len(buf) >= Len(pat) /\ SubSeq(buf, 1, Len(pat)) = pat

\* ZIP64 end of central directory record (56 bytes), its locator (20 bytes), then
\* the classic end of central directory record
Zip64Trailer(buf) ==
  /\ Len(buf) >= 98
  /\ StartsWith(buf, writeUInt32LE(Zip64EndOfCentralDirectoryRecordSignature))
  /\ SubSeq(buf, 57, 60) = writeUInt32LE(Zip64EndOfCentralDirectoryLocatorSignature)
  /\ SubSeq(buf, 77, 80) = writeUInt32LE(EndOfCentralDirectoryRecordSignature)

ClassicTrailer(buf) ==
  StartsWith(buf, writeUInt32LE(EndOfCentralDirectoryRecordSignature))

\* the entries listed by the central directory that call i wrote
ListedBy(i) == SelectSeq(entries, LAMBDA e : e.id < i)

\* C11: when an entry was added with forceZip64Format = true, the finalized archive
\* ends with the ZIP64 end of central directory record, its locator and the classic
\* end of central directory record, in that order, also when
\* addCentralDirectoryRecord was called without forceZip64Format.
C11_ForcedEntryForcesZip64Trailer ==
  \A k \in 1..Len(out) :
    (/\ out[k].kind = "eocd"
     /\ \E j \in 1..Len(ListedBy(out[k].op)) : ListedBy(out[k].op)[j].forceZip64Format)
      => Zip64Trailer(out[k].bytes)

(***************************************************************************)
(* The local file header of an entry whose crc and sizes are not known     *)
(* when the header is emitted.                                             *)
(***************************************************************************)
\* the local file header that chunk k holds, as a reader parses it
LocalHeaderAt(k) == readLocalFileHeader(out[k].bytes, WZero).v

DataDescriptorsOf(i) == ChunksOf(out, i, {"dd"})

\* the data descriptor is the last chunk of the entry, right after its file data
DescriptorClosesEntry(i) ==
  LET mine == ChunksOf(out, i, EntryChunkKinds)
  IN  /\ Len(DataDescriptorsOf(i)) = 1
      /\ mine[Len(mine)].kind = "dd"

UnknownSizesFlagged(k) ==
  LET i == out[k].op
      known == ops[i].entry.crcAndFileSizeKnown
  IN  /\ HasBit(LocalHeaderAt(k).generalPurposeBitFlag, 8) <=> ~known
      /\ (~known /\ ops[i].st = "resolved") => DescriptorClosesEntry(i)
      /\ known => DataDescriptorsOf(i) = <<>>

\* C12 (as stated): when crcAndFileSizeKnown is false at the emission of the local
\* header, its crc32, compressedSize and uncompressedSize fields are all zero, bit
\* 0x0008 is set and a data descriptor follows the file data; when it is true the bit
\* is clear and no data descriptor is pushed.
C12_UnknownSizesWrittenAsZero ==
  \A k \in 1..Len(out) :
    out[k].kind = "lfh"
      => /\ UnknownSizesFlagged(k)
         /\ ~ops[out[k].op].entry.crcAndFileSizeKnown
              => /\ LocalHeaderAt(k).crc32 = WZero
                 /\ LocalHeaderAt(k).compressedSize = WZero
                 /\ LocalHeaderAt(k).uncompressedSize = WZero

\* C12 (amended): when crcAndFileSizeKnown is false at the emission of the local
\* header, its crc32 field is zero, its 32-bit size fields hold the ZIP64 sentinel
\* 0xFFFFFFFF and the sizes in its ZIP64 extra field are zero, bit 0x0008 is set and,
\* once the entry is written, a data descriptor is the chunk that follows its file
\* data; when the flag is true the bit is clear and no data descriptor is pushed.
C12_UnknownSizesFlaggedAndDescribed ==
  \A k \in 1..Len(out) :
    out[k].kind = "lfh"
      => /\ UnknownSizesFlagged(k)
         /\ ~ops[out[k].op].entry.crcAndFileSizeKnown
              => /\ LocalHeaderAt(k).crc32 = WZero
                 /\ LocalHeaderAt(k).compressedSize = U32Max
                 /\ LocalHeaderAt(k).uncompressedSize = U32Max
                 /\ LocalHeaderAt(k).extraFields = <<[id |-> 1, data |-> [b \in 1..16 |-> 0]]>>

C12_Witness ==
  \E k \in 1..Len(out) :
    /\ out[k].kind = "lfh"
    /\ ~ops[out[k].op].entry.crcAndFileSizeKnown
    /\ ops[out[k].op].st = "resolved"
    /\ DescriptorClosesEntry(out[k].op)
    /\ \E j \in 1..Len(out) :
         out[j].kind = "lfh" /\ ops[out[j].op].entry.crcAndFileSizeKnown

(***************************************************************************)
(* addReadStream with pre-declared sizes or checksum.                      *)
(***************************************************************************)
\* addReadStream calls whose stream was read to its end without a stream error
StreamRead(i) ==
  /\ ops[i].kind = "addReadStream"
  /\ ops[i].st \in {"resolved", "rejected"}
  /\ ops[i].pos = Len(Calls[ops[i].call].chunks)
  /\ ~Calls[ops[i].call].streamError

\* every pre-declared value equals the value observed from the stream: the compressed
\* bytes pushed, the checksum of the input, the number of input bytes
DeclaredAsObserved(i) ==
  LET arg == Calls[ops[i].call]
      input == Concat(arg.chunks)
  IN  /\ arg.compressedSize # Undefined
           => arg.compressedSize = W(Len(BytesOf(ChunksOf(out, i, {"data"}))))
      /\ arg.crc32 # Undefined => arg.crc32 = crc32(input, WZero)
      /\ arg.uncompressedSize # Undefined => arg.uncompressedSize = W(Len(input))

\* C13: an addReadStream whose stream was read succeeds if and only if every
\* pre-declared compressedSize, crc32 and uncompressedSize equals the value observed
\* (compressed bytes pushed, checksum of the input, input bytes); on a mismatch the
\* call fails, its entry is not appended to entries and the writer is failed.
C13_DeclaredValuesAreChecked ==
  \A i \in 1..Len(ops) :
    StreamRead(i)
      => /\ ops[i].st = "resolved" <=> DeclaredAsObserved(i)
         /\ ops[i].st = "rejected"
              => /\ \A k \in 1..Len(entries) : entries[k].id # i
                 /\ stream.errored /\ stream.destroyed

(***************************************************************************)
(* removeEntry.                                                            *)
(***************************************************************************)
\* the entry count a reader takes from the closing records: that of the ZIP64 end of
\* central directory record when there is one, else that of the classic record
EntryCountOf(buf) ==
  IF Zip64Trailer(buf) THEN readBigUInt64LE(buf, 32) ELSE W(readUInt16LE(buf, 10))

\* a step changes entries only by appending one entry or by removing the entry that
\* removeEntry was given, keeping the others, their order and their offsets
EntriesOnlyRemovedByRemoveEntry ==
  entries' # entries /\ Len(entries') <= Len(entries)
    => \E i \in 1..Len(ops) :
         /\ ~ops[i].removed /\ ops'[i].removed
         /\ \E k \in 1..Len(entries) : entries[k].id = i
         /\ entries' = SelectSeq(entries, LAMBDA e : e.id # i)

\* removeEntry leaves the cursor and the output alone
RemoveEntryFrame ==
  (\E i \in 1..Len(ops) : ~ops[i].removed /\ ops'[i].removed)
    => /\ outputStreamCursor' = outputStreamCursor
       /\ out' = out
       /\ Len(entries') = Len(entries) - 1

\* the central directory emitted in this step lists the entries that remain
CentralDirectoryListsRemaining ==
  (Len(out') > Len(out) /\ out'[Len(out')].kind = "eocd")
    => LET i == out'[Len(out')].op
       IN  /\ ChunksOf(out', i, {"cd"})
                = [k \in 1..Len(entries) |->
                     Chunk("cd", i, getCentralDirectoryRecord(entries[k]).v)]
           /\ EntryCountOf(out'[Len(out')].bytes) = W(Len(entries))

RemovedEntriesAreGone ==
  \A k \in 1..Len(entries) : ~ops[entries[k].id].removed

\* C14: removeEntry(e) removes exactly e from entries when it is present and is a
\* no-op otherwise; it leaves the output cursor, the bytes pushed, the order of the
\* remaining entries and their offsets unchanged, and a central directory emitted
\* afterwards has no header for e and an entry count equal to the number of
\* remaining entries.
C14_RemoveEntry ==
  /\ []RemovedEntriesAreGone
  /\ [][/\ EntriesOnlyRemovedByRemoveEntry
        /\ RemoveEntryFrame
        /\ CentralDirectoryListsRemaining]_vars

C14_Witness ==
  /\ \E i \in 1..Len(ops) : ops[i].removed
  /\ entries # <<>>
  /\ \E k \in 1..Len(out) : out[k].kind = "eocd"
  /\ \E k \in 1..Len(out) : out[k].kind = "cd"

(***************************************************************************)
(* Zip.addEntry without createReadStream, on a writer seeded with the size *)
(* of the source archive.                                                  *)
(***************************************************************************)
SameAsSource(e, source) ==
  /\ e.relativeOffsetOfLocalHeader = source.relativeOffsetOfLocalHeader
  /\ e.crc32 = source.centralDirectoryFileHeader.crc32
  /\ e.compressedSize = source.compressedSize
  /\ e.uncompressedSize = source.uncompressedSize
  /\ e.compressionMethod = source.centralDirectoryFileHeader.compressionMethod

\* the step in which a metadata-only addEntry runs appends its entry and nothing else
MetadataOnlyAddEntry ==
  \A i \in 1..Len(ops) :
    (ops[i].kind = "addEntryMeta" /\ Resolves(i))
      => /\ out' = out
         /\ outputStreamCursor' = outputStreamCursor
         /\ Len(entries') = Len(entries) + 1
         /\ SubSeq(entries', 1, Len(entries)) = entries
         /\ entries'[Len(entries')].id = i
         /\ SameAsSource(entries'[Len(entries')], Calls[ops[i].call].source)

\* the central directory offset that the closing records hold
CentralDirectoryOffsetOf(buf) ==
  IF Zip64Trailer(buf) THEN readBigUInt64LE(buf, 48) ELSE readUInt32LE(buf, 16)

OffsetsNotBelowSeed ==
  /\ \A k \in 1..Len(out) :
       /\ out[k].kind = "lfh"
            => WGe(ops[out[k].op].entry.relativeOffsetOfLocalHeader, cursorSeed)
       /\ out[k].kind = "eocd" => WGe(CentralDirectoryOffsetOf(out[k].bytes), cursorSeed)
  /\ offsetOfStartOfCentralDirectory # Undefined
       => WGe(offsetOfStartOfCentralDirectory, cursorSeed)

\* C15: addEntry(readEntry) without createReadStream pushes no bytes and leaves the
\* cursor unchanged; it appends, in queue order, an entry with the source entry's
\* relativeOffsetOfLocalHeader, crc32, compressedSize, uncompressedSize and
\* compression method; on a writer constructed with a cursor seed, every entry added
\* through a data-emitting path gets an offset at or above the seed, and so does the
\* central directory offset written at finalize.
C15_MetadataOnlyAddEntry ==
  /\ []OffsetsNotBelowSeed
  /\ [][MetadataOnlyAddEntry]_vars

C15_Witness ==
  /\ cursorSeed # WZero
  /\ \E i \in 1..Len(ops) :
       /\ ops[i].kind = "addEntryMeta" /\ ops[i].st = "resolved"
       /\ \E k \in 1..Len(entries) :
            entries[k].id = i /\ SameAsSource(entries[k], Calls[ops[i].call].source)
       /\ \E k \in 1..Len(out) : out[k].kind = "lfh" /\ out[k].op > i
  /\ \E k \in 1..Len(out) : out[k].kind = "eocd"

(***************************************************************************)
(* Copying entries of a source archive with addEntry(meta, createReadStream)*)
(***************************************************************************)
IsPrefix(a, b) == Len(a) <= Len(b) /\ SubSeq(b, 1, Len(a)) = a

\* the copy calls whose stream was read to its end
CopyRead(i) ==
  /\ ops[i].kind = "addEntry"
  /\ ops[i].st \in {"resolved", "rejected"}
  /\ ops[i].pos = Len(Calls[ops[i].call].chunks)

\* the body pushed for a copy is the source's compressed bytes, chunk by chunk; the
\* copy succeeds exactly when their number is the source's compressedSize, and then
\* the entry appended has the source's name, comment, checksum, sizes and method
CopiesAreRaw ==
  \A i \in 1..Len(ops) :
    ops[i].kind = "addEntry"
      => LET arg == Calls[ops[i].call]
             data == ChunksOf(out, i, {"data"})
         IN  /\ IsPrefix([k \in 1..Len(data) |-> data[k].bytes], arg.chunks)
             /\ CopyRead(i)
                  => /\ BytesOf(data) = Concat(arg.chunks)
                     /\ ops[i].st = "resolved"
                          <=> W(Len(Concat(arg.chunks))) = arg.source.compressedSize
             /\ ops[i].st = "resolved"
                  => /\ ops[i].entry.fileName = BufferFrom(arg.source.fileName)
                     /\ ops[i].entry.comment = BufferFrom(arg.source.comment)
                     /\ ops[i].entry.crc32 = arg.source.centralDirectoryFileHeader.crc32
                     /\ ops[i].entry.compressedSize = arg.source.compressedSize
                     /\ ops[i].entry.uncompressedSize = arg.source.uncompressedSize
                     /\ ops[i].entry.compressionMethod
                          = arg.source.centralDirectoryFileHeader.compressionMethod

\* a finished archive made of copies only, finalized after the last copy
CopiedArchive ==
  /\ stream.ended
  /\ entries # <<>>
  /\ \A i \in 1..Len(ops) :
       /\ ops[i].st = "resolved"
       /\ ~ops[i].removed
       /\ ops[i].kind \in {"addEntry", "addCentralDirectoryRecord", "end"}
  /\ \E i \in 1..Len(ops) :
       /\ ops[i].kind = "addCentralDirectoryRecord"
       /\ \A j \in 1..Len(ops) : ops[j].kind = "addEntry" => j < i

\* the entries an iteration of the new archive yields are those of the source, in order
CopyReadsBackAsSource ==
  (CopiedArchive /\ rd.phase = "done")
    => /\ Len(rd.yielded) = Len(entries)
       /\ \A k \in 1..Len(rd.yielded) :
            LET source == Calls[ops[entries[k].id].call].source
                e == rd.yielded[k]
            IN  /\ e.fileName = source.fileName
                /\ e.comment = source.comment
                /\ e.centralDirectoryFileHeader.crc32
                     = source.centralDirectoryFileHeader.crc32
                /\ e.compressedSize = source.compressedSize
                /\ e.uncompressedSize = source.uncompressedSize
                /\ e.centralDirectoryFileHeader.compressionMethod
                     = source.centralDirectoryFileHeader.compressionMethod
                /\ k <= Len(rd.data) => rd.data[k] = Ok(SourceData)

\* C16: copying the entries of an archive with addEntry(meta, createReadStream) asks
\* each stream factory for the raw stream (decompress: false), pushes the source's
\* compressed bytes unchanged as the body and yields an archive whose entries, in the
\* same order, have the source's name, comment, crc32, compressedSize,
\* uncompressedSize and compression method; the copy of an entry fails if the number
\* of raw bytes streamed differs from the source's compressedSize.
C16_CopyPreservesEntries == CopiesAreRaw /\ CopyReadsBackAsSource

C16_Witness ==
  /\ CopiedArchive
  /\ rd.phase = "done"
  /\ Len(rd.yielded) = 2
  /\ Len(rd.data) = 2

(***************************************************************************)
(* Archive-level ZIP64 promotion.                                          *)
(***************************************************************************)
\* what getEndOfCentralDirectoryRecord was given by call i
CentralDirectorySizeOf(i) == W(Len(BytesOf(ChunksOf(out, i, {"cd"}))))
CentralDirectoryCountOf(i) == W(Len(ChunksOf(out, i, {"cd"})))

Zip64Promoted(i) ==
  \/ Calls[ops[i].call].forceZip64Format
  \/ WGe(CentralDirectoryCountOf(i), W(65535))
  \/ WGe(CentralDirectorySizeOf(i), U32Max)
  \/ WGe(offsetOfStartOfCentralDirectory, U32Max)

\* the closing records are in ZIP64 form exactly when the archive is promoted
TrailerFormFollowsPromotion ==
  \A k \in 1..Len(out) :
    out[k].kind = "eocd"
      => IF Zip64Promoted(out[k].op) THEN Zip64Trailer(out[k].bytes)
         ELSE ClassicTrailer(out[k].bytes)

\* a finalize call whose callback ran
Finalized(i) ==
  /\ ops[i].kind = "addCentralDirectoryRecord"
  /\ ops[i].st \in {"resolved", "rejected"}
  /\ PromiseState(ops[i].pred) = "resolved"

\* C17: at finalize the closing records are ZIP64 end of central directory record +
\* locator + classic record if and only if entryCount >= 0xFFFF, or the central
\* directory size >= 0xFFFFFFFF, or its offset >= 0xFFFFFFFF, or forceZip64Format was
\* passed to addCentralDirectoryRecord; otherwise only the classic record is written;
\* and in each of these cases addCentralDirectoryRecord completes successfully.
C17_ArchiveLevelZip64 ==
  /\ TrailerFormFollowsPromotion
  /\ \A i \in 1..Len(ops) :
       Finalized(i) => /\ ops[i].st = "resolved"
                       /\ \E k \in 1..Len(out) : out[k].kind = "eocd" /\ out[k].op = i

(***************************************************************************)
(* The form of a central directory header.                                 *)
(***************************************************************************)
\* the header that the writer pushed, as a reader parses it
CentralDirectoryHeaderWritten == readCentralDirectoryFileHeader(out[1].bytes, WZero).v

HasZip64ExtraField(header) ==
  \E k \in 1..Len(header.extraFields) : header.extraFields[k].id = 1

\* C18: a central directory header is written in ZIP64 form (the 32-bit
\* compressedSize, uncompressedSize and relativeOffsetOfLocalHeader all 0xFFFFFFFF and
\* one 0x0001 extra field of 24 bytes holding the uncompressed size, the compressed
\* size and the local header offset in that order) if and only if the entry has
\* forceZip64Format or one of the three values is >= 0xFFFFFFFF; otherwise the three
\* fields hold the true values, none of them the sentinel, and there is no 0x0001
\* extra field.
C18_CentralDirectoryHeaderForm ==
  (Len(entries) = 1 /\ Len(out) = 1)
    => LET e == entries[1]
           h == CentralDirectoryHeaderWritten
       IN  IF Zip64Entry(e)
           THEN /\ h.compressedSize = U32Max
                /\ h.uncompressedSize = U32Max
                /\ h.relativeOffsetOfLocalHeader = U32Max
                /\ h.extraFields
                     = <<[id |-> 1,
                          data |-> writeBigUInt64LE(e.uncompressedSize)
                                   \o writeBigUInt64LE(e.compressedSize)
                                   \o writeBigUInt64LE(e.relativeOffsetOfLocalHeader)]>>
           ELSE /\ h.compressedSize = e.compressedSize
                /\ h.uncompressedSize = e.uncompressedSize
                /\ h.relativeOffsetOfLocalHeader = e.relativeOffsetOfLocalHeader
                /\ U32Max \notin {h.compressedSize, h.uncompressedSize,
                                  h.relativeOffsetOfLocalHeader}
                /\ ~HasZip64ExtraField(h)

C18_Witness ==
  /\ Len(entries) = 1 /\ Len(out) = 1
  /\ ~entries[1].forceZip64Format
  /\ entries[1].uncompressedSize = W(3)
  /\ entries[1].compressedSize = U32Max
  /\ HasZip64ExtraField(CentralDirectoryHeaderWritten)

(***************************************************************************)
(* The form of a local file header: getLocalFileHeader applied to entries  *)
(* whose sizes are unknown, or known on either side of 0xFFFFFFFF.         *)
(***************************************************************************)
MaybeValues == HeaderValues \cup {Undefined}

\* the entries a callback hands to addEntry(): crcAndFileSizeKnown is set exactly
\* when the checksum and both sizes are there
LFHEntries ==
  {[NoEntry EXCEPT !.id = 1, !.fileName = <<97>>, !.crc32 = crc,
                   !.externalFileAttributes = W32(33204, 0),
                   !.uncompressedSize = u, !.compressedSize = c,
                   !.forceZip64Format = f,
                   !.crcAndFileSizeKnown =
                      crc # Undefined /\ u # Undefined /\ c # Undefined] :
     u \in MaybeValues, c \in MaybeValues, crc \in {Undefined, W(4242)},
     f \in BOOLEAN}

InitLFH ==
  /\ cursorSeed = WZero
  /\ queue = 0
  /\ outputStreamCursor = WZero
  /\ entries \in {<<e>> : e \in LFHEntries}
  /\ offsetOfStartOfCentralDirectory = Undefined
  /\ out = <<>>
  /\ stream = [ended |-> FALSE, errored |-> FALSE, destroyed |-> FALSE]
  /\ ops = <<>>
  /\ rd = NoReader

\* addEntry: entry.relativeOffsetOfLocalHeader = cursor;
\* writeBuffer(self, getLocalFileHeader(entry))
EmitLocalHeader ==
  /\ out = <<>>
  /\ ~stream.destroyed
  /\ LET entry == [entries[1] EXCEPT !.relativeOffsetOfLocalHeader = outputStreamCursor]
         header == getLocalFileHeader(entry)
     IN  /\ entries' = <<entry>>
         /\ IF header.ok
            THEN /\ out' = Push(out, stream, <<Chunk("lfh", 0, header.v)>>)
                 /\ outputStreamCursor' = WAdd(outputStreamCursor, W(Len(header.v)))
                 /\ UNCHANGED stream
            ELSE /\ stream' = Failed(stream)
                 /\ UNCHANGED <<out, outputStreamCursor>>
  /\ UNCHANGED <<cursorSeed, queue, offsetOfStartOfCentralDirectory, ops, rd>>

NextLFH == EmitLocalHeader

SpecLFH == InitLFH /\ [][NextLFH]_vars

\* the header that the writer pushed, as a reader parses it
LocalHeaderWritten == readLocalFileHeader(out[1].bytes, WZero).v

\* the local header is in ZIP64 form when zip64 holds, in the plain form otherwise
LocalHeaderFormIs(zip64) ==
  LET e == entries[1]
      h == LocalHeaderWritten
  IN  IF zip64
      THEN /\ h.compressedSize = U32Max
           /\ h.uncompressedSize = U32Max
           /\ h.versionNeededToExtract = 45
           /\ h.extraFields
                = <<[id |-> 1,
                     data |-> IF e.crcAndFileSizeKnown
                              THEN writeBigUInt64LE(e.uncompressedSize)
                                   \o writeBigUInt64LE(e.compressedSize)
                              ELSE [b \in 1..16 |-> 0]]>>
      ELSE /\ h.compressedSize = e.compressedSize
           /\ h.uncompressedSize = e.uncompressedSize
           /\ h.versionNeededToExtract = 20
           /\ ~HasZip64ExtraField(h)

\* C19 (as stated): a local file header is in ZIP64 form (32-bit size fields
\* 0xFFFFFFFF, a 16-byte 0x0001 extra field holding the uncompressed then the
\* compressed size, or zeros when unknown, versionNeededToExtract 45) exactly when
\* forceZip64Format is set, or the sizes are not yet known, or the uncompressed or
\* compressed size exceeds 0xFFFFFFFF; otherwise the fields hold the true sizes,
\* there is no 0x0001 extra field and versionNeededToExtract is 20.
C19_LocalHeaderZip64AboveSentinel ==
  (Len(entries) = 1 /\ Len(out) = 1)
    => LocalHeaderFormIs(\/ entries[1].forceZip64Format
                         \/ ~entries[1].crcAndFileSizeKnown
                         \/ WGt(entries[1].uncompressedSize, U32Max)
                         \/ WGt(entries[1].compressedSize, U32Max))

\* C19 (amended): a local file header is in ZIP64 form exactly when forceZip64Format
\* is set, or the sizes are not yet known, or the uncompressed or compressed size is
\* at or above 0xFFFFFFFF; otherwise the 32-bit fields hold the true sizes, there is
\* no 0x0001 extra field and versionNeededToExtract is 20.
C19_LocalHeaderZip64FromSentinel ==
  (Len(entries) = 1 /\ Len(out) = 1)
    => LocalHeaderFormIs(\/ entries[1].forceZip64Format
                         \/ ~entries[1].crcAndFileSizeKnown
                         \/ WGe(entries[1].uncompressedSize, U32Max)
                         \/ WGe(entries[1].compressedSize, U32Max))

C19_Witness ==
  /\ Len(entries) = 1 /\ Len(out) = 1
  /\ ~entries[1].forceZip64Format
  /\ entries[1].crcAndFileSizeKnown
  /\ entries[1].uncompressedSize = U32Max
  /\ entries[1].compressedSize = W(3)
  /\ HasZip64ExtraField(LocalHeaderWritten)

(***************************************************************************)
(* The search for the end of central directory record, on its own: the     *)
(* handle is any short file, and fromBuffer is applied to it.  The files   *)
(* are records with no entries whose comment may itself hold the bytes of  *)
(* a record, so that the last 22 + 65535 bytes hold more than one place    *)
(* where the signature is found.                                           *)
(***************************************************************************)

\* the 22 bytes that fromRandomAccessReader parses at a candidate, then the comment
EocdrBytes(commentLength, comment) ==
  writeUInt32LE(EndOfCentralDirectoryRecordSignature)
    \o writeUInt16LE(0) \o writeUInt16LE(0) \o writeUInt16LE(0) \o writeUInt16LE(0)
    \o writeUInt32LE(WZero) \o writeUInt32LE(WZero)
    \o writeUInt16LE(commentLength) \o comment

EOCDComments ==
  {<<>>, <<120>>, writeUInt32LE(EndOfCentralDirectoryRecordSignature)}
    \cup {EocdrBytes(commentLength, tail) : commentLength \in {0, 1, 5},
                                            tail \in {<<>>, <<9>>}}

EOCDHandles ==
  {<<>>, [k \in 1..22 |-> 0]}
    \cup {prefix \o EocdrBytes(Len(comment) + excess, comment) :
            prefix \in {<<>>, <<1>>, <<1, 2>>}, excess \in {0, 1},
            comment \in EOCDComments}

InitEOCD ==
  /\ cursorSeed = WZero
  /\ queue = 0
  /\ outputStreamCursor = WZero
  /\ entries = <<>>
  /\ offsetOfStartOfCentralDirectory = Undefined
  /\ out \in {<<Chunk("eocd", 0, handle)>> : handle \in EOCDHandles}
  /\ stream = [ended |-> TRUE, errored |-> FALSE, destroyed |-> FALSE]
  /\ ops = <<>>
  /\ rd = NoReader

NextEOCD ==
  \/ FromBuffer
  \/ EntriesNext

SpecEOCD == InitEOCD /\ [][NextEOCD]_vars

\* the positions of the window where the signature is found and the comment length
\* field equals the number of bytes that follow the record
MatchingCandidates(buffer) ==
  {i \in 0..(Len(buffer) - eocdrWithoutCommentSize) :
     /\ readUInt32LE(buffer, i) = EndOfCentralDirectoryRecordSignature
     /\ readUInt16LE(buffer, i + 20) = Len(buffer) - eocdrWithoutCommentSize - i}

Highest(S) == CHOOSE k \in S : \A j \in S : j <= k

\* C20: the backward scan passes over a place where the signature is found but the
\* comment length field differs from the bytes that follow, and opens the archive
\* at the highest place where the two agree; it fails with "end of central
\* directory record signature not found" only when there is no such place.
C20_ScanPassesOverMismatch ==
  rd.phase # "idle"
    => LET matching == MatchingCandidates(Archive)
       IN  IF matching = {}
           THEN /\ rd.phase = "failed"
                /\ rd.err = "end of central directory record signature not found"
           ELSE /\ rd.phase \in {"open", "done"}
                /\ rd.comment =
                     decodeCp437(subarray(Archive,
                                          Highest(matching) + eocdrWithoutCommentSize,
                                          Len(Archive)))

(***************************************************************************)
(* The ZIP64 resolution of an iterator step, on its own: the central       *)
(* directory holds one header whose three 32-bit fields and disk number    *)
(* are each stored as a value or as the sentinel, and whose 0x0001 extra   *)
(* field is absent or holds the first bytes of Zip64Payload.               *)
(***************************************************************************)
Zip64Payload == [k \in 1..28 |-> k]

Zip64Headers ==
  {[versionMadeBy |-> VERSION_MADE_BY,
    versionNeededToExtract |-> VERSION_NEEDED_TO_EXTRACT_ZIP64,
    generalPurposeBitFlag |-> generalPurposeBitFlags.utf8,
    compressionMethod |-> compressionMethods.none,
    fileLastModificationDate |-> 0,
    fileLastModificationTime |-> 0,
    crc32 |-> W(4242),
    compressedSize |-> c,
    uncompressedSize |-> u,
    diskNumberStart |-> d,
    internalFileAttributes |-> 0,
    externalFileAttributes |-> WZero,
    relativeOffsetOfLocalHeader |-> o,
    fileName |-> <<97>>,
    extraFields |-> x,
    comment |-> <<>>] :
     u \in {W(3), U32Max}, c \in {W(3), U32Max}, o \in {W(3), U32Max},
     d \in {0, 65535},
     x \in {<<>>} \cup {<<[id |-> 1, data |-> SubSeq(Zip64Payload, 1, n)]>> :
                          n \in {0, 4, 8, 12, 16, 20, 24, 28}}}

InitZ64 ==
  /\ cursorSeed = WZero
  /\ queue = 0
  /\ outputStreamCursor = WZero
  /\ entries = <<>>
  /\ offsetOfStartOfCentralDirectory = WZero
  /\ out \in {<<Chunk("cd", 0, serializeCentralDirectoryFileHeader(h).v)>> :
                h \in Zip64Headers}
  /\ stream = [ended |-> TRUE, errored |-> FALSE, destroyed |-> FALSE]
  /\ ops = <<>>
  /\ rd = NoReader

NextZ64 ==
  \/ NewUnzip
  \/ EntriesNext

SpecZ64 == InitZ64 /\ [][NextZ64]_vars

\* the header of the central directory, as stored
StoredHeader == readCentralDirectoryFileHeader(Archive, WZero).v

\* the bytes of the 0x0001 payload that the stored sentinels call for
RequiredPayload(h) ==
  (IF h.uncompressedSize = U32Max THEN 8 ELSE 0)
    + (IF h.compressedSize = U32Max THEN 8 ELSE 0)
    + (IF h.relativeOffsetOfLocalHeader = U32Max THEN 8 ELSE 0)
    + (IF h.diskNumberStart = 65535 THEN 4 ELSE 0)

\* the value of a field: read at the cursor when stored as the sentinel
Resolved(stored, isSentinel, payload, at, wide) ==
  IF ~isSentinel THEN stored
  ELSE IF wide THEN readBigUInt64LE(payload, at) ELSE readUInt32LE(payload, at)

\* C21: an iterator step reads the 0x0001 payload with a cursor that advances by 8
\* for each of uncompressedSize, compressedSize and relativeOffsetOfLocalHeader and
\* reads 4 bytes for diskNumberStart, each only when the stored value is its
\* sentinel; a field that is not the sentinel keeps its stored value; the step
\* fails exactly when a sentinel is stored and the payload is missing or shorter
\* than the sentinel fields require.
C21_Zip64PayloadCursor ==
  (Len(out) = 1 /\ IteratorStepped)
    => LET h == StoredHeader
           found == FindExtraField(h.extraFields, 1)
           c1 == IF h.uncompressedSize = U32Max THEN 8 ELSE 0
           c2 == c1 + (IF h.compressedSize = U32Max THEN 8 ELSE 0)
           c3 == c2 + (IF h.relativeOffsetOfLocalHeader = U32Max THEN 8 ELSE 0)
           short == RequiredPayload(h) > 0
                    /\ (found = Undefined \/ Len(found[1]) < RequiredPayload(h))
       IN  IF short THEN rd.yielded = <<>> /\ rd.err # ""
           ELSE /\ rd.err = ""
                /\ Len(rd.yielded) = 1
                /\ rd.yielded[1].uncompressedSize =
                     Resolved(h.uncompressedSize, h.uncompressedSize = U32Max,
                              found[1], 0, TRUE)
                /\ rd.yielded[1].compressedSize =
                     Resolved(h.compressedSize, h.compressedSize = U32Max,
                              found[1], c1, TRUE)
                /\ rd.yielded[1].relativeOffsetOfLocalHeader =
                     Resolved(h.relativeOffsetOfLocalHeader,
                              h.relativeOffsetOfLocalHeader = U32Max, found[1], c2, TRUE)
                /\ rd.yielded[1].diskNumberStart =
                     Resolved(W(h.diskNumberStart), h.diskNumberStart = 65535,
                              found[1], c3, FALSE)

(***************************************************************************)
(* Opening the data of an entry, on its own: the handle is an archive of   *)
(* one entry whose central directory header and local file header each     *)
(* name a compression method, whose flags may mark it as encrypted, whose  *)
(* local file header may hold a ZIP64 extra field that the central         *)
(* directory header lacks, or a wrong signature, and whose data is the     *)
(* content stored or deflated; the client opens it,                        *)
(* iterates it and calls the entry's createReadStream with any options.    *)
(***************************************************************************)
ReadContent == <<97, 98, 99>>

ReadArchive(cdMethod, lfhMethod, flag, body, localExtraFields, signed) ==
  LET localFileHeader ==
        serializeLocalFileHeader(
          [versionNeededToExtract |-> VERSION_NEEDED_TO_EXTRACT_UTF8,
           generalPurposeBitFlag |-> flag,
           compressionMethod |-> lfhMethod,
           fileLastModificationTime |-> 0,
           fileLastModificationDate |-> 0,
           crc32 |-> crc32(ReadContent, WZero),
           compressedSize |-> W(Len(body)),
           uncompressedSize |-> W(Len(ReadContent)),
           fileName |-> <<97>>,
           extraFields |-> localExtraFields]).v
      \* the local file header as written, or with a first byte that is not 'P'
      localBytes == IF signed THEN localFileHeader
                    ELSE <<0>> \o SubSeq(localFileHeader, 2, Len(localFileHeader))
      centralDirectoryFileHeader ==
        serializeCentralDirectoryFileHeader(
          [versionMadeBy |-> VERSION_MADE_BY,
           versionNeededToExtract |-> VERSION_NEEDED_TO_EXTRACT_UTF8,
           generalPurposeBitFlag |-> flag,
           compressionMethod |-> cdMethod,
           fileLastModificationDate |-> 0,
           fileLastModificationTime |-> 0,
           crc32 |-> crc32(ReadContent, WZero),
           compressedSize |-> W(Len(body)),
           uncompressedSize |-> W(Len(ReadContent)),
           diskNumberStart |-> 0,
           internalFileAttributes |-> 0,
           externalFileAttributes |-> WZero,
           relativeOffsetOfLocalHeader |-> WZero,
           fileName |-> <<97>>,
           extraFields |-> <<>>,
           comment |-> <<>>]).v
      endOfCentralDirectoryRecord ==
        serializeEndOfCentralDirectoryRecord(
          [diskNumber |-> 0,
           centralDirectoryDiskNumber |-> 0,
           numberOfEntriesOnDisk |-> W(1),
           numberOfEntries |-> W(1),
           sizeOfCentralDirectory |-> W(Len(centralDirectoryFileHeader)),
           centralDirectoryOffset |-> W(Len(localFileHeader) + Len(body)),
           allocUnsafe |-> writeUInt16LE(0),
           comment |-> <<>>]).v
  IN  localBytes \o body \o centralDirectoryFileHeader \o endOfCentralDirectoryRecord

ReadArchives ==
  {ReadArchive(cdMethod, lfhMethod, flag, body, localExtraFields, signed) :
     cdMethod \in {compressionMethods.none, compressionMethods.deflate, 12},
     lfhMethod \in {compressionMethods.none, compressionMethods.deflate, 12},
     flag \in {generalPurposeBitFlags.utf8,
               generalPurposeBitFlags.utf8 + generalPurposeBitFlags.encrypted,
               generalPurposeBitFlags.utf8 + generalPurposeBitFlags.strongEncryption},
     body \in {ReadContent, deflateRaw(ReadContent)},
     localExtraFields \in {<<>>, <<[id |-> 1, data |-> [k \in 1..16 |-> 0]]>>},
     signed \in BOOLEAN}

\* the options of createReadStream: start and end absent, negative, within the data
\* or beyond it
ReadOptions ==
  [start : {Undefined, Negative, W(0), W(1), W(9)},
   end : {Undefined, Negative, W(0), W(2), W(3), W(5), W(9)},
   decompress : BOOLEAN, decrypt : BOOLEAN, validateData : BOOLEAN]

InitRead ==
  /\ cursorSeed = WZero
  /\ queue = 0
  /\ outputStreamCursor = WZero
  /\ entries = <<>>
  /\ offsetOfStartOfCentralDirectory = Undefined
  /\ out \in {<<Chunk("file", 0, handle)>> : handle \in ReadArchives}
  /\ stream = [ended |-> TRUE, errored |-> FALSE, destroyed |-> FALSE]
  /\ ops = <<>>
  /\ rd = NoReader

\* the client calls the createReadStream yielded with the next entry, with these
\* options, and drains the stream
CreateReadStreamWith(options) ==
  /\ Len(rd.data) < Len(rd.yielded)
  /\ LET result == openReadStream(Archive, rd.yielded[Len(rd.data) + 1], options)
     IN  rd' = [rd EXCEPT !.data = Append(@, [ok |-> result.ok, v |-> result.v,
                                              err |-> result.err,
                                              options |-> options])]
  /\ UNCHANGED writerVars

NextRead ==
  \/ FromBuffer
  \/ EntriesNext
  \/ \E options \in ReadOptions : CreateReadStreamWith(options)

SpecRead == InitRead /\ [][NextRead]_vars

\* the errors of a stream that openReadStream returned, as opposed to the errors
\* that openReadStream throws
StreamErrors ==
  {"unexpected end of file", "trailing data", "too many bytes in the stream",
   "not enough bytes in the stream", "unexpected checksum"}

Returned(d) == d.ok \/ d.err \in StreamErrors

Ranged(options) == options.start # Undefined \/ options.end # Undefined

\* the pipeline of this call holds the inflate stage
Inflates(entry, options) ==
  /\ readLocalFileHeader(Archive, entry.relativeOffsetOfLocalHeader).ok
  /\ readLocalFileHeader(Archive, entry.relativeOffsetOfLocalHeader).v.compressionMethod
       = compressionMethods.deflate
  /\ options.decompress

BadRange(entry, options) ==
  \/ options.start = Negative
  \/ options.end = Negative
  \/ options.end # Undefined /\ WGt(options.end, entry.compressedSize)
  \/ /\ options.start \notin {Undefined, Negative}
     /\ options.end \notin {Undefined, Negative}
     /\ WLt(options.end, options.start)

\* C22: no createReadStream call that returns a stream both covers a range given by
\* start or end and inflates the data (or would decrypt it), whatever the compression
\* methods of the central directory header and of the local file header and whatever
\* the options; and a range with start < 0, end > compressedSize or end < start is
\* rejected.
C22_NoRangedInflate ==
  \A k \in 1..Len(rd.data) :
    LET d == rd.data[k]
        entry == rd.yielded[k]
    IN  /\ (Returned(d) /\ Ranged(d.options))
             => /\ ~Inflates(entry, d.options)
                /\ ~(entry.encrypted /\ d.options.decrypt)
        /\ BadRange(entry, d.options) => ~Returned(d)

\* the entry is stored and its data is the content
StoredEntry(entry) ==
  /\ entry.centralDirectoryFileHeader.compressionMethod = compressionMethods.none
  /\ readLocalFileHeader(Archive, entry.relativeOffsetOfLocalHeader).ok
  /\ readLocalFileHeader(Archive, entry.relativeOffsetOfLocalHeader).v.compressionMethod
       = compressionMethods.none
  /\ ~entry.encrypted
  /\ entry.compressedSize = entry.uncompressedSize

\* 0 <= start <= end <= compressedSize, both given
RangeWithin(entry, options) ==
  /\ options.start \notin {Undefined, Negative}
  /\ options.end \notin {Undefined, Negative}
  /\ ~WLt(options.end, options.start)
  /\ ~WGt(options.end, entry.compressedSize)

\* C23: for a stored entry, createReadStream({start, end, decompress: false}) with
\* 0 <= start <= end <= compressedSize delivers exactly the bytes of the content from
\* start up to end and completes without error, and createReadStream({start, end,
\* decompress: true}) with a range that is not the whole of the data fails.
C23_StoredRangeRead ==
  \A k \in 1..Len(rd.data) :
    LET d == rd.data[k]
        entry == rd.yielded[k]
        start == WNum(d.options.start)
        end == WNum(d.options.end)
    IN  (/\ StoredEntry(entry)
         /\ RangeWithin(entry, d.options)
         /\ d.options.validateData /\ d.options.decrypt)
          => IF ~d.options.decompress
             THEN d.ok /\ d.v = SubSeq(ReadContent, start + 1, end)
             ELSE (start # 0 \/ W(end) # entry.compressedSize) => ~d.ok

\* C25: createReadStream on an entry whose flag 0x0001 (encrypted) is set fails,
\* whatever the options; and an iterator step on a central directory header whose
\* flag 0x0040 (strong encryption) is set fails and yields no entry.
C25_EncryptedDataIsRefused ==
  /\ \A k \in 1..Len(rd.data) : rd.yielded[k].encrypted => ~rd.data[k].ok
  /\ (rd.phase # "idle"
      /\ HasBit(readCentralDirectoryFileHeader(Archive, rd.centralDirectoryOffset)
                  .v.generalPurposeBitFlag,
                generalPurposeBitFlags.strongEncryption))
       => rd.yielded = <<>> /\ rd.phase \in {"open", "failed"}

(***************************************************************************)
(* The validation Transform of openReadStream, chunk by chunk.  Here rd is *)
(* the state of one data stream: the chunks its upstream delivers, the     *)
(* position in them, the closure's bytes and crc32, and the chunks passed  *)
(* downstream.  A throw inside transform() or flush() leaves the stream    *)
(* without a successful end: phase "failed".                               *)
(***************************************************************************)
TapStreams ==
  UNION {[1..n -> {<<1>>, <<2, 3>>}] : n \in 0..3}

InitTap ==
  /\ cursorSeed = WZero
  /\ queue = 0
  /\ outputStreamCursor = WZero
  /\ entries = <<>>
  /\ offsetOfStartOfCentralDirectory = Undefined
  /\ out = <<>>
  /\ stream = [ended |-> TRUE, errored |-> FALSE, destroyed |-> FALSE]
  /\ ops = <<>>
  /\ rd \in {[phase |-> "flowing", entry |-> entry, chunks |-> chunks, next |-> 1,
              bytes |-> WZero, crc32 |-> WZero, delivered |-> <<>>, err |-> ""] :
               entry \in {[uncompressedSize |-> W(n),
                            centralDirectoryFileHeader |-> [crc32 |-> c]] :
                             n \in 0..4,
                             c \in {crc32(Concat(stored), WZero) :
                                      stored \in TapStreams}},
               chunks \in TapStreams}

\* a transform() that would pass the chunk on before it counts
transformAfterCallback(tap, chunk) ==
  LET bytes == WAdd(tap.bytes, W(Len(chunk)))
  IN  IF WGt(bytes, tap.entry.uncompressedSize)
      THEN [tap EXCEPT !.bytes = bytes, !.delivered = Append(@, chunk),
                       !.phase = "failed",
                       !.err = "too many bytes in the stream"]
      ELSE [tap EXCEPT !.bytes = bytes, !.crc32 = crc32(chunk, @),
                       !.delivered = Append(@, chunk)]

transform(tap, chunk) ==
  LET bytes == WAdd(tap.bytes, W(Len(chunk)))
  IN  IF WGt(bytes, tap.entry.uncompressedSize)
      THEN [tap EXCEPT !.bytes = bytes, !.phase = "failed",
                       !.err = "too many bytes in the stream"]
      ELSE [tap EXCEPT !.bytes = bytes, !.crc32 = crc32(chunk, @),
                       !.delivered = Append(@, chunk)]

flush(tap) ==
  IF tap.bytes # tap.entry.uncompressedSize
  THEN [tap EXCEPT !.phase = "failed", !.err = "not enough bytes in the stream"]
  ELSE IF tap.crc32 # tap.entry.centralDirectoryFileHeader.crc32
  THEN [tap EXCEPT !.phase = "failed", !.err = "unexpected checksum"]
  ELSE [tap EXCEPT !.phase = "ended"]

\* the pipeline writes the next chunk of the upstream into the Transform
WriteChunk ==
  /\ rd.phase = "flowing"
  /\ rd.next <= Len(rd.chunks)
  /\ rd' = [transform(rd, rd.chunks[rd.next]) EXCEPT !.next = rd.next + 1]
  /\ UNCHANGED writerVars

\* the upstream has ended
EndOfStream ==
  /\ rd.phase = "flowing"
  /\ rd.next > Len(rd.chunks)
  /\ rd' = flush(rd)
  /\ UNCHANGED writerVars

NextTap ==
  \/ WriteChunk
  \/ EndOfStream

SpecTap == InitTap /\ [][NextTap]_vars

\* C24: with validation active, the data stream ends successfully exactly when the
\* bytes delivered number entry.uncompressedSize and their CRC-32 is that of the
\* central directory; it fails at the end of the stream on a short count or a wrong
\* CRC, and fails during the stream as soon as the running count exceeds
\* uncompressedSize, without passing the offending chunk downstream.
C24_ValidatedStream ==
  LET all == Concat(rd.chunks)
      seen == Concat(SubSeq(rd.chunks, 1, rd.next - 1))
      size == WNum(rd.entry.uncompressedSize)
      good == /\ Len(all) = size
              /\ crc32(all, WZero) = rd.entry.centralDirectoryFileHeader.crc32
  IN  /\ rd.phase = "ended" => good /\ Concat(rd.delivered) = all
      /\ rd.phase = "failed" => ~good
      /\ (rd.phase = "failed" /\ Len(seen) <= size)
           => /\ rd.next > Len(rd.chunks)
              /\ rd.err = IF Len(all) < size THEN "not enough bytes in the stream"
                          ELSE "unexpected checksum"
      /\ Len(seen) > size
           => /\ rd.phase = "failed"
              /\ rd.err = "too many bytes in the stream"
              /\ Len(Concat(SubSeq(rd.chunks, 1, rd.next - 2))) <= size
      /\ Len(Concat(rd.delivered)) <= size
      /\ IsPrefix(Concat(rd.delivered), all)

C24_Witness ==
  /\ rd.phase = "failed"
  /\ rd.err = "too many bytes in the stream"
  /\ rd.delivered = <<<<2, 3>>>>
  /\ rd.next = 3
  /\ Len(rd.chunks) = 3

(***************************************************************************)
(* The stream factories of one archive, invoked in any order: the writer   *)
(* and the iterator run as before, and the client may call the             *)
(* createReadStream of any entry yielded so far, once each.  rd.data lists *)
(* the calls in the order they were made, each with the step k whose       *)
(* factory it was.                                                         *)
(***************************************************************************)
\* a factory that would read the iterator's latest entry instead of its own
createReadStreamOfLatest(k) ==
  openReadStream(Archive, rd.yielded[Len(rd.yielded)], NoOptions)

\* the closure returned by readEntry at step k: openReadStream(handle, entry, options)
createReadStreamOf(k) == openReadStream(Archive, rd.yielded[k], NoOptions)

InvokeFactory(k) ==
  /\ k \in 1..Len(rd.yielded)
  /\ \A j \in 1..Len(rd.data) : rd.data[j].k # k
  /\ LET result == createReadStreamOf(k)
     IN  rd' = [rd EXCEPT !.data = Append(@, [k |-> k, ok |-> result.ok,
                                              v |-> result.v, err |-> result.err])]
  /\ UNCHANGED writerVars

NextFactories ==
  \/ WriterNext
  \/ FromBuffer
  \/ EntriesNext
  \/ \E k \in 1..MaxAdds : InvokeFactory(k)

SpecFactories == Init /\ [][NextFactories]_vars

\* the position of the k-th header of the central directory, from the archive alone
RECURSIVE HeaderPosition(_)
HeaderPosition(k) ==
  IF k = 1 THEN rd.centralDirectoryOffset
  ELSE WAdd(HeaderPosition(k - 1),
            W(entrySize(readEntry(Archive, HeaderPosition(k - 1), TRUE).v)))

\* what the factory of step k delivers when it is called right at step k
DeliveredAtStep(k) ==
  openReadStream(Archive, readEntry(Archive, HeaderPosition(k), TRUE).v, NoOptions)

FactoriesDeliverTheirEntry ==
  \A j \in 1..Len(rd.data) :
    LET result == DeliveredAtStep(rd.data[j].k)
    IN  /\ rd.data[j].ok = result.ok
        /\ rd.data[j].v = result.v
        /\ rd.data[j].err = result.err

YieldedFollowDirectory ==
  \A k \in 1..Len(rd.yielded) :
    rd.yielded[k] = readEntry(Archive, HeaderPosition(k), TRUE).v

FactoryLeavesIteratorAlone ==
  rd'.data # rd.data
    => /\ rd'.cursor = rd.cursor
       /\ rd'.entriesRead = rd.entriesRead
       /\ rd'.yielded = rd.yielded
       /\ rd'.phase = rd.phase

\* C26: the stream factory obtained at iteration step k delivers the same bytes
\* whether it is called before the iterator advances, after later steps, after the
\* iteration has finished, or between other factories of the archive in any order;
\* calling a factory changes neither the iterator's cursor nor the entries it
\* yields later.
C26_FactoriesIndependentOfIteration ==
  /\ [](FactoriesDeliverTheirEntry /\ YieldedFollowDirectory)
  /\ [][FactoryLeavesIteratorAlone]_vars

C26_Witness ==
  /\ rd.phase = "done"
  /\ Len(rd.data) = 2
  /\ rd.data[1].k = 2
  /\ rd.data[2].k = 1
  /\ rd.data[1].ok /\ rd.data[2].ok
  /\ rd.data[1].v # rd.data[2].v

\* the comment holds the bytes 0x50 0x4B 0x05 0x06, or is longer than 65535 bytes
RefusedComment(c) ==
  \/ Len(Calls[c].comment) > 65535
  \/ \E k \in 1..(Len(Calls[c].comment) - 3) :
       SubSeq(Calls[c].comment, k, k + 3) = <<80, 75, 5, 6>>

RefusedCalls == {c \in ArgsOf("addCentralDirectoryRecord") : RefusedComment(c)}

NoRefusedCommentQueued ==
  \A i \in 1..Len(ops) :
    ops[i].kind = "addCentralDirectoryRecord" => ops[i].call \notin RefusedCalls

RefusedCommentLeavesWriterAlone ==
  \A c \in RefusedCalls :
    AddCentralDirectoryRecord(c)
      => UNCHANGED <<queue, outputStreamCursor, entries,
                     offsetOfStartOfCentralDirectory, out, stream, ops>>

\* C27: addCentralDirectoryRecord with an archive comment that holds the bytes
\* 0x50 0x4B 0x05 0x06, or that is longer than 65535 bytes, fails synchronously at
\* the call: nothing is queued, no central directory or end of central directory
\* bytes are pushed, and queue, cursor and entries are as before, so that a later
\* addCentralDirectoryRecord with a valid comment finalizes the archive.
C27_RefusedCommentFailsAtCall ==
  /\ []NoRefusedCommentQueued
  /\ [][RefusedCommentLeavesWriterAlone]_vars

\* the writer is where the refused call was made (it is open and holds an entry), and
\* a call with a valid comment has then written the closing records
C27_Witness ==
  \E i \in 1..Len(ops) :
    /\ ops[i].kind = "addCentralDirectoryRecord"
    /\ ops[i].st = "resolved"
    /\ ops[i].call \notin RefusedCalls
    /\ entries # <<>>
    /\ \E k \in 1..Len(out) : out[k].kind = "eocd" /\ out[k].op = i
    /\ \E j \in 1..Len(out) : out[j].kind = "cd" /\ out[j].op = i

\* the calls of end() that chained a push of the end-of-stream marker
EndOps == {i \in 1..Len(ops) : ops[i].kind = "end"}

\* the marker was pushed: every operation queued before that end() has resolved, and
\* every chunk pushed is theirs
MarkerFollowsQueuedOperations ==
  stream.ended
    => \E e \in EndOps :
         /\ ops[e].st = "resolved"
         /\ \A i \in 1..(e - 1) : ops[i].st = "resolved"
         /\ \A k \in 1..Len(out) : out[k].op < e

\* end() was called: it chained one push, and nothing was queued after it
NothingQueuedAfterEnd ==
  /\ Cardinality(EndOps) <= 1
  /\ queue = QueueUndefined
       => Len(ops) >= 1 /\ ops[Len(ops)].kind = "end"

\* a public method of the writer is called
MethodCalled ==
  \/ \E c \in ArgsOf("addBuffer") : AddBuffer(c)
  \/ \E c \in ArgsOf("addFile") : AddFile(c)
  \/ \E c \in ArgsOf("addFileHandle") : AddFileHandle(c)
  \/ \E c \in ArgsOf("addReadStream") : AddReadStream(c)
  \/ \E c \in ArgsOf("addDirectory") : AddDirectory(c)
  \/ \E c \in ArgsOf("addEntry") : ZipAddEntry(c)
  \/ \E c \in ArgsOf("addCentralDirectoryRecord") : AddCentralDirectoryRecord(c)
  \/ \E c \in ArgsOf("end") : End(c)

CallsAfterEndAreRefused ==
  (queue = QueueUndefined /\ MethodCalled)
    => UNCHANGED <<queue, outputStreamCursor, entries,
                   offsetOfStartOfCentralDirectory, out, stream, ops>>

\* once the marker is pushed no operation runs (removeEntry may still be called)
NothingAfterMarker ==
  stream.ended
    => /\ UNCHANGED <<outputStreamCursor, out, stream>>
       /\ Len(ops') = Len(ops)
       /\ \A i \in 1..Len(ops) : ops'[i].st = ops[i].st /\ ops'[i].pos = ops[i].pos

MaxNameLength == 4

EntryCalls ==
  {[fileName |-> name, isDirectory |-> d, mtime |-> Epoch2024] :
     name \in UNION {[1..n -> {97, 47, 92, 46, 58}] : n \in 0..MaxNameLength},
     d \in BOOLEAN}
  \cup
  {[fileName |-> <<97>>, isDirectory |-> FALSE,
    mtime |-> [year |-> y, month |-> m, date |-> d, hours |-> h, minutes |-> mi,
               seconds |-> sec]] :
     y \in {1980, 1981, 2024, 2107}, m \in {0, 1, 11}, d \in {1, 28, 31},
     h \in {0, 23}, mi \in {0, 59}, sec \in {0, 1, 58, 59}}

InitEntry ==
  /\ cursorSeed = WZero
  /\ queue = 0
  /\ outputStreamCursor = WZero
  /\ entries = <<>>
  /\ offsetOfStartOfCentralDirectory = Undefined
  /\ out = <<>>
  /\ stream = [ended |-> FALSE, errored |-> FALSE, destroyed |-> FALSE]
  /\ ops \in {<<[kind |-> "add", fileName |-> call.fileName,
                 isDirectory |-> call.isDirectory, mtime |-> call.mtime,
                 st |-> "called", returned |-> <<>>]>> :
                call \in {c \in EntryCalls : c.mtime.month # 1 \/ c.mtime.date # 31}}
  /\ rd = NoReader

\* fileName = sanitizeMetadataPath(fileName, isDirectory); createEntry({ fileName,
\* mtime, ... })
CreateEntry ==
  /\ ops[1].st = "called"
  /\ LET fileName == sanitizeMetadataPath(ops[1].fileName, ops[1].isDirectory)
         entry == createEntry([BaseArg EXCEPT !.fileName = fileName.v,
                                              !.isDirectory = ops[1].isDirectory,
                                              !.mtime = ops[1].mtime]
                              @@ [id |-> 1])
     IN  IF fileName.ok /\ entry.ok
         THEN /\ ops' = [ops EXCEPT ![1].st = "returned", ![1].returned = fileName.v]
              /\ entries' = <<entry.v>>
         ELSE /\ ops' = [ops EXCEPT ![1].st = "threw"]
              /\ UNCHANGED entries
  /\ UNCHANGED <<cursorSeed, queue, outputStreamCursor, offsetOfStartOfCentralDirectory,
                 out, stream, rd>>

NextEntry == CreateEntry

SpecEntry == InitEntry /\ [][NextEntry]_vars

\* the name with every backslash turned into a slash
Slashed(name) == [i \in 1..Len(name) |-> IF name[i] = 92 THEN 47 ELSE name[i]]

\* name.split('/')
RECURSIVE Split(_)
Split(name) ==
  IF \A i \in 1..Len(name) : name[i] # 47 THEN <<name>>
  ELSE LET i == CHOOSE k \in 1..Len(name) :
                  name[k] = 47 /\ \A j \in 1..(k - 1) : name[j] # 47
       IN  <<SubSeq(name, 1, i - 1)>> \o Split(SubSeq(name, i + 1, Len(name)))

RefusedName(name, isDirectory) ==
  \/ name = <<>>
  \/ Slashed(name)[1] = 47
  \/ Len(name) >= 2 /\ IsLetter(name[1]) /\ name[2] = 58
  \/ \E k \in 1..Len(Split(Slashed(name))) : Split(Slashed(name))[k] = <<46, 46>>
  \/ ~isDirectory /\ Slashed(name)[Len(name)] = 47

\* C29: sanitizeMetadataPath refuses the empty string, a path that starts with '/',
\* a path that starts with a drive letter and ':', and a path with a '..' segment;
\* backslashes are turned into '/' before these tests; a directory name without a
\* trailing '/' gets one; a file name that ends in '/' is refused; and a name that
\* is accepted is returned with no other change.
C29_PathSanitization ==
  ops[1].st # "called"
    => LET name == ops[1].fileName
           slashed == Slashed(name)
       IN  IF RefusedName(name, ops[1].isDirectory)
           THEN ops[1].st = "threw" /\ entries = <<>>
           ELSE /\ ops[1].st = "returned"
                /\ ops[1].returned =
                     IF ops[1].isDirectory /\ slashed[Len(slashed)] # 47
                     THEN slashed \o <<47>>
                     ELSE slashed

C29_Witness ==
  /\ ops[1].st = "returned"
  /\ ops[1].isDirectory
  /\ ops[1].fileName = <<97, 92, 97>>
  /\ ops[1].returned = <<97, 47, 97, 47>>
  /\ entries[1].fileName = <<97, 47, 97, 47>>

\* C30: for a UTC time stamp t with its year in 1980..2107, decoding the date and
\* time words that the encoder produced gives t with its seconds rounded down to an
\* even value (t itself when they are even); the date word decodes to a year in
\* 1980..2107, and the time word holds an hour <= 23, a minute <= 59 and a
\* seconds/2 <= 29.
C30_DosDateTimeRoundTrip ==
  (ops[1].st = "returned" /\ ops[1].mtime.year \in 1980..2107)
    => LET t == ops[1].mtime
           date == entries[1].lastModFileDate
           time == entries[1].lastModFileTime
           decoded == dosDateTimeToDate(date, time)
       IN  /\ decoded = [t EXCEPT !.seconds = 2 * (t.seconds \div 2)]
           /\ (t.seconds % 2 = 0 => decoded = t)
           /\ date \in 0..65535 /\ time \in 0..65535
           /\ decoded.year \in 1980..2107
           /\ (time \div 2048) % 32 <= 23
           /\ (time \div 32) % 64 <= 59
           /\ time % 32 <= 29

C30_Witness ==
  /\ ops[1].st = "returned"
  /\ ops[1].mtime = [year |-> 2107, month |-> 11, date |-> 31, hours |-> 23,
                     minutes |-> 59, seconds |-> 59]
  /\ dosDateTimeToDate(entries[1].lastModFileDate, entries[1].lastModFileTime).seconds
       = 58
  /\ entries[1].lastModFileDate = 65439

(***************************************************************************)
(* cp437.js, the encoder.  reverseCp437 is filled in table order, a later  *)
(* index replacing an earlier one for the same character; a lookup gives   *)
(* undefined or a one-element tuple holding the byte.                      *)
(***************************************************************************)
reverseCp437(char) ==
  LET at == {i \in 1..Len(cp437) : cp437[i] = char}
  IN  IF at = {} THEN Undefined
      ELSE <<(CHOOSE i \in at : \A j \in at : j <= i) - 1>>

RECURSIVE encodeSlowPath(_)
encodeSlowPath(string) ==
  IF string = <<>> THEN Ok(<<>>)
  ELSE LET b == reverseCp437(Head(string))
           rest == encodeSlowPath(Tail(string))
       IN  IF b = Undefined THEN Err("character not encodable in CP437")
           ELSE IF ~rest.ok THEN rest
           ELSE Ok(b \o rest.v)

\* a variant whose fast path also takes U+007F
encodeCp437WideFastPath(string) ==
  IF \A i \in 1..Len(string) : string[i] >= 32 /\ string[i] <= 127
  THEN Ok(BufferFrom(string))
  ELSE encodeSlowPath(string)

encodeCp437(string) ==
  IF \A i \in 1..Len(string) : string[i] >= 32 /\ string[i] <= 126
  THEN Ok(BufferFrom(string))
  ELSE encodeSlowPath(string)

(***************************************************************************)
(* The codec on its own: one byte decoded and encoded again, or one string *)
(* of up to two code units encoded.  ops holds the input and the results.  *)
(***************************************************************************)
MaxStringLength == 2

InitCodec ==
  /\ cursorSeed = WZero
  /\ queue = 0
  /\ outputStreamCursor = WZero
  /\ entries = <<>>
  /\ offsetOfStartOfCentralDirectory = Undefined
  /\ out = <<>>
  /\ stream = [ended |-> FALSE, errored |-> FALSE, destroyed |-> FALSE]
  /\ ops \in {<<[kind |-> "bytes", buffer |-> <<b>>, string |-> <<>>, st |-> "given",
                 encoded |-> <<>>]>> : b \in 0..255}
             \cup
             {<<[kind |-> "string", buffer |-> <<>>, string |-> s, st |-> "decoded",
                 encoded |-> <<>>]>> :
                s \in UNION {[1..n -> {0, 31, 32, 65, 126, 127, 160, 255, 256, 9786,
                                       65533}] : n \in 0..MaxStringLength}}
  /\ rd = NoReader

DecodeCp437 ==
  /\ ops[1].st = "given"
  /\ ops' = [ops EXCEPT ![1].st = "decoded", ![1].string = decodeCp437(ops[1].buffer)]
  /\ UNCHANGED <<cursorSeed, queue, outputStreamCursor, entries,
                 offsetOfStartOfCentralDirectory, out, stream, rd>>

EncodeCp437 ==
  /\ ops[1].st = "decoded"
  /\ LET result == encodeCp437(ops[1].string)
     IN  ops' = IF result.ok
                THEN [ops EXCEPT ![1].st = "encoded", ![1].encoded = result.v]
                ELSE [ops EXCEPT ![1].st = "threw"]
  /\ UNCHANGED <<cursorSeed, queue, outputStreamCursor, entries,
                 offsetOfStartOfCentralDirectory, out, stream, rd>>

NextCodec == DecodeCp437 \/ EncodeCp437

SpecCodec == InitCodec /\ [][NextCodec]_vars

TableCharacters == {cp437[i] : i \in 1..Len(cp437)}

\* C31: for every byte b, encoding the decoding of [b] gives [b]; encoding a string
\* of printable ASCII characters (U+0020..U+007E) gives the bytes of its UTF-8 form,
\* one byte per character with the character's code; and encoding fails exactly when
\* some code unit of the string is not one of the 256 characters of the table.
C31_Cp437Codec ==
  ops[1].st \in {"encoded", "threw"}
    => LET string == ops[1].string
       IN  /\ ops[1].kind = "bytes"
                => ops[1].st = "encoded" /\ ops[1].encoded = ops[1].buffer
           /\ (\A i \in 1..Len(string) : string[i] \in 32..126)
                => ops[1].st = "encoded" /\ ops[1].encoded = string
           /\ ops[1].st = "threw"
                <=> \E i \in 1..Len(string) : string[i] \notin TableCharacters

C31_Witness ==
  /\ ops[1].kind = "bytes"
  /\ ops[1].buffer = <<255>>
  /\ ops[1].string = <<160>>
  /\ ops[1].st = "encoded"
  /\ ops[1].encoded = <<255>>

(***************************************************************************)
(* The values held by the records that close the central directory.        *)
(***************************************************************************)
CentralDirectorySizeIn(buf) ==
  IF Zip64Trailer(buf) THEN readBigUInt64LE(buf, 40) ELSE readUInt32LE(buf, 12)

EntryCountsIn(buf) ==
  IF Zip64Trailer(buf) THEN {readBigUInt64LE(buf, 24), readBigUInt64LE(buf, 32)}
  ELSE {W(readUInt16LE(buf, 8)), W(readUInt16LE(buf, 10))}

\* the trailing records in chunk k hold the position and the size of the central
\* directory that precedes them in the output
TrailerDescribesOutput(k) ==
  LET i == out[k].op
      buf == out[k].bytes
      headers == ChunksOf(out, i, {"cd"})
      start == WAdd(cursorSeed, W(BytesBefore(k) - Len(BytesOf(headers))))
  IN  /\ CentralDirectoryOffsetOf(buf) = start
      /\ CentralDirectorySizeIn(buf) = W(Len(BytesOf(headers)))
      /\ EntryCountsIn(buf) = {W(Len(headers))}
      /\ Zip64Trailer(buf)
           => /\ readBigUInt64LE(buf, 64) = WAdd(cursorSeed, W(BytesBefore(k)))
              /\ readBigUInt64LE(buf, 64)
                   = WAdd(CentralDirectoryOffsetOf(buf), CentralDirectorySizeIn(buf))

\* C32: in the trailing records emitted by addCentralDirectoryRecord, the central
\* directory offset is the cursor seed plus the number of bytes pushed before the
\* first central directory header, the central directory size is the total length
\* of the headers pushed, the entry counts are the number of entries listed, and the
\* ZIP64 locator holds the cursor seed plus the number of bytes pushed before the
\* ZIP64 end of central directory record, which is offset + size.
C32_TrailerDescribesOutput ==
  \A k \in 1..Len(out) : out[k].kind = "eocd" => TrailerDescribesOutput(k)

(***************************************************************************)
(* The classic end of central directory record of an archive that a        *)
(* threshold promotes to ZIP64.                                            *)
(***************************************************************************)
\* the classic record at the end of the trailing records
ClassicRecordOf(buf) == IF Zip64Trailer(buf) THEN SubSeq(buf, 77, Len(buf)) ELSE buf

\* what makes fromRandomAccessReader go on to the ZIP64 locator
ReaderPromotes(eocdr) ==
  \/ readUInt16LE(eocdr, 10) = 65535
  \/ readUInt32LE(eocdr, 16) = U32Max

\* the callback of finalize call i runs in this step, every central directory header
\* being serializable, without forceZip64Format and with a value above a threshold
ThresholdFinalize(i) ==
  /\ ops[i].kind = "addCentralDirectoryRecord"
  /\ ops[i].st = "pending"
  /\ ops'[i].st \in {"resolved", "rejected"}
  /\ ~Calls[ops[i].call].forceZip64Format
  /\ CentralDirectoryRecords(entries).ok
  /\ \/ Len(entries) > 65535
     \/ WGt(W(SumLen(CentralDirectoryRecords(entries).v)), U32Max)
     \/ WGt(outputStreamCursor, U32Max)

\* C33: when an archive-level threshold triggers ZIP64 without forceZip64Format
\* (entry count > 0xFFFF, central directory size > 0xFFFFFFFF or central directory
\* offset > 0xFFFFFFFF), finalize does not fail, and the classic end of central
\* directory record it writes holds values that fit their fields and make the
\* reader go on to the ZIP64 record.
C33_ClassicRecordFitsItsFields ==
  [][\A i \in 1..Len(ops) :
       ThresholdFinalize(i)
         => /\ ops'[i].st = "resolved"
            /\ out'[Len(out')].kind = "eocd"
            /\ Zip64Trailer(out'[Len(out')].bytes)
            /\ ReaderPromotes(ClassicRecordOf(out'[Len(out')].bytes))]_vars

(***************************************************************************)
(* The data descriptor of an entry.                                        *)
(***************************************************************************)
\* the central directory headers in the output that list the entry of call i
CentralDirectoryHeadersOf(i) ==
  {k \in 1..Len(out) :
     /\ out[k].kind = "cd"
     /\ readCentralDirectoryFileHeader(out[k].bytes, WZero).v.relativeOffsetOfLocalHeader
          = ops[i].entry.relativeOffsetOfLocalHeader
     /\ \E j \in 1..Len(ListedBy(out[k].op)) : ListedBy(out[k].op)[j].id = i}

DescriptorDescribesEntry(k) ==
  LET i == out[k].op
      buf == out[k].bytes
      body == BytesOf(ChunksOf(out, i, {"data"}))
  IN  /\ Len(buf) = 24
      /\ readUInt32LE(buf, 0) = DataDescriptorSignature
      /\ readUInt32LE(buf, 4) = ops[i].entry.crc32
      /\ readBigUInt64LE(buf, 8) = ops[i].entry.compressedSize
      /\ readBigUInt64LE(buf, 16) = ops[i].entry.uncompressedSize
      /\ readBigUInt64LE(buf, 8) = W(Len(body))
      /\ \A c \in CentralDirectoryHeadersOf(i) :
           LET header == readCentralDirectoryFileHeader(out[c].bytes, WZero).v
           IN  /\ header.crc32 = readUInt32LE(buf, 4)
               /\ header.compressedSize = readBigUInt64LE(buf, 8)
               /\ header.uncompressedSize = readBigUInt64LE(buf, 16)

\* C34: a data descriptor, when emitted, has the 24-byte ZIP64 form and holds the
\* final crc32, compressedSize and uncompressedSize of its entry; its compressedSize
\* is the number of body bytes pushed between the local header and the descriptor,
\* and the three values are the ones written for the entry in its central directory
\* header.
C34_DataDescriptor ==
  \A k \in 1..Len(out) : out[k].kind = "dd" => DescriptorDescribesEntry(k)

(***************************************************************************)
(* What the output holds of an entry that is in entries[].                 *)
(***************************************************************************)
\* the local header, the whole body and, when the sizes were not known, the data
\* descriptor of the entry that call i wrote are in the output, in this order
FullyWritten(i) ==
  LET mine == ChunksOf(out, i, EntryChunkKinds)
      body == BytesOf(ChunksOf(out, i, {"data"}))
  IN  /\ mine # <<>>
      /\ mine[1].kind = "lfh"
      /\ \A k \in 2..Len(mine) :
           mine[k].kind = "data" \/ (mine[k].kind = "dd" /\ k = Len(mine))
      /\ W(Len(body)) = ops[i].entry.compressedSize
      /\ ops[i].entry.crcAndFileSizeKnown <=> DataDescriptorsOf(i) = <<>>

AllDefined(entry) ==
  /\ entry.crc32 # Undefined
  /\ entry.compressedSize # Undefined
  /\ entry.uncompressedSize # Undefined
  /\ entry.relativeOffsetOfLocalHeader # Undefined

\* C35: entries[] only holds fully written entries: an entry that the writer wrote
\* is in entries[] only after its local header, its complete body and, if any, its
\* data descriptor were pushed; every entry in entries[] has crc32, compressedSize,
\* uncompressedSize and relativeOffsetOfLocalHeader defined; and an entry whose
\* write failed is never in entries[].
C35_EntriesAreFullyWritten ==
  \A k \in 1..Len(entries) :
    LET i == entries[k].id
    IN  /\ ops[i].st = "resolved"
        /\ AllDefined(entries[k])
        /\ ops[i].kind \in WriteKinds => FullyWritten(i)

(***************************************************************************)
(* Progress of the queue: a promise that was rejected never resolves.      *)
(***************************************************************************)
\* the body source of call c ends without error, and what the call declares of the
\* body (size from stat, sizes and crc32 of the options or of the source entry) is
\* what the body has
DeclaredMatches(c) ==
  LET arg == Calls[c]
      bytes == Concat(arg.chunks)
  IN  /\ ~arg.streamError
      /\ arg.method \in {"addFile", "addFileHandle"} => arg.statSize = W(Len(bytes))
      /\ arg.method = "addReadStream"
           => /\ arg.uncompressedSize \in {Undefined, W(Len(bytes))}
              /\ arg.crc32 \in {Undefined, crc32(bytes, WZero)}
              /\ \/ arg.compressedSize = Undefined
                 \/ ~arg.compress /\ arg.compressedSize = W(Len(bytes))
      /\ (arg.method = "addEntry" /\ arg.withStream)
           => arg.source.compressedSize = W(Len(bytes))

\* the calls up to call i were given valid arguments and bodies as the claim assumes
HealthyUpTo(i) ==
  \A j \in 1..i :
    ops[j].kind \in AddKinds
      => /\ InputIsValid(ops[j].call)
         /\ Calls[ops[j].call].isFile
         /\ DeclaredMatches(ops[j].call)

\* C36: if every body source ends without error and every declared size and crc32
\* matches, every promise returned by an add call and by addCentralDirectoryRecord
\* eventually resolves, an add call's with the entry that was appended, and after
\* end() the end-of-stream marker is eventually delivered.  A settled promise stays
\* as it is, so none of these promises is ever rejected, and one that resolved did so
\* with its entry appended or its marker delivered.
C36_QueueProgress ==
  \A i \in 1..Len(ops) :
    HealthyUpTo(i)
      => /\ ops[i].st # "rejected"
         /\ (ops[i].st = "resolved" /\ ops[i].kind \in AddKinds /\ ~ops[i].removed)
              => \E k \in 1..Len(entries) : entries[k] = ops[i].entry
         /\ (ops[i].st = "resolved" /\ ops[i].kind = "end") => stream.ended

(***************************************************************************)
(* The entries() iterator against the bytes of the central directory.      *)
(***************************************************************************)
\* the length of the central directory header at position p, from its three length
\* fields
HeaderLengthAt(p) ==
  46 + readUInt16LE(Archive, WNum(p) + 28) + readUInt16LE(Archive, WNum(p) + 30)
     + readUInt16LE(Archive, WNum(p) + 32)

\* centralDirectoryOffset plus the lengths of the first k - 1 headers
RECURSIVE PositionOfHeader(_)
PositionOfHeader(k) ==
  IF k = 1 THEN rd.centralDirectoryOffset
  ELSE WAdd(PositionOfHeader(k - 1), W(HeaderLengthAt(PositionOfHeader(k - 1))))

IteratorFollowsHeaders ==
  rd.phase # "idle"
    => /\ WGe(rd.entryCount, W(Len(rd.yielded)))
       /\ rd.entriesRead = W(Len(rd.yielded))
       /\ rd.phase = "done" => rd.entryCount = W(Len(rd.yielded))
       /\ \A k \in 1..Len(rd.yielded) :
            rd.yielded[k].centralDirectoryFileHeader
              = readCentralDirectoryFileHeader(Archive, PositionOfHeader(k)).v
       /\ rd.cursor = PositionOfHeader(Len(rd.yielded) + 1)

IteratorIsSinglePass ==
  /\ rd'.yielded # rd.yielded
       => /\ rd.phase = "open"
          /\ Len(rd'.yielded) = Len(rd.yielded) + 1
          /\ SubSeq(rd'.yielded, 1, Len(rd.yielded)) = rd.yielded
  /\ rd.phase \in {"failed", "done"}
       => rd'.phase = rd.phase /\ rd'.yielded = rd.yielded /\ rd'.cursor = rd.cursor

\* C37: the entry iterator yields exactly entryCount pairs unless a step fails; the
\* k-th central directory header is parsed at centralDirectoryOffset plus the sum,
\* over the earlier headers, of 46 + fileNameLength + extraFieldsLength +
\* commentLength; a step yields one more pair and never changes an earlier one; and
\* after a failing step, or after the last one, no further pair is yielded.
C37_EntryIterator ==
  /\ []IteratorFollowsHeaders
  /\ [][IteratorIsSinglePass]_vars

C37_Witness ==
  /\ rd.phase = "failed"
  /\ rd.entryCount = W(2)
  /\ Len(rd.yielded) = 1
  /\ rd.cursor = PositionOfHeader(2)
  /\ WGt(rd.cursor, rd.centralDirectoryOffset)

(***************************************************************************)
(* The position of the file data of an entry.  The archives of SpecRead    *)
(* hold one entry, whose local file header is at offset 0.                 *)
(***************************************************************************)
\* the local file header's signature, compression method and length, from the bytes
LocalSignatureIsRight == SubSeq(Archive, 1, 4) = writeUInt32LE(LocalFileHeaderSignature)
LocalMethod == readUInt16LE(Archive, 8)
LocalDataStart == 30 + readUInt16LE(Archive, 26) + readUInt16LE(Archive, 28)

\* the bytes of [dataStart + start, dataStart + end), start and end taken from the
\* options or, when absent, 0 and compressedSize
RangeOfData(entry, options) ==
  LET start == IF options.start = Undefined THEN 0 ELSE WNum(options.start)
      end == IF options.end = Undefined THEN WNum(entry.compressedSize)
             ELSE WNum(options.end)
  IN  subarray(Archive, LocalDataStart + start, LocalDataStart + end)

DataReadAtLocalHeaderLengths(j) ==
  LET d == rd.data[j]
      entry == rd.yielded[j]
      expected == streams(entry, d.options, LocalMethod, RangeOfData(entry, d.options))
  IN  /\ (~LocalSignatureIsRight \/ LocalMethod \notin {0, 8}) => ~Returned(d)
      /\ Returned(d)
           => /\ d.ok = expected.ok /\ d.v = expected.v /\ d.err = expected.err
              /\ (~d.options.decompress /\ ~d.options.validateData)
                   => d.ok /\ d.v = RangeOfData(entry, d.options)

\* C38: the pipeline of an entry reads the bytes of [dataStart + start, dataStart +
\* end), where dataStart is relativeOffsetOfLocalHeader + 30 + the file name length
\* and the extra field length of the local file header, not those of the central
\* directory header, so that a local header with a ZIP64 extra field that the central
\* directory header lacks is read at the right position; and a local header with a
\* wrong signature, or with a compression method other than 0 or 8, makes the
\* factory fail.
C38_DataStartsAfterLocalHeader ==
  \A j \in 1..Len(rd.data) : DataReadAtLocalHeaderLengths(j)

C38_Witness ==
  /\ Len(rd.data) = 1
  /\ readUInt16LE(Archive, 28) = 20
  /\ rd.yielded[1].centralDirectoryFileHeader.extraFieldsLength = 0
  /\ rd.data[1].options.start = W(1)
  /\ rd.data[1].options.end = W(2)
  /\ ~rd.data[1].options.decompress
  /\ rd.data[1].ok
  /\ rd.data[1].v = <<98>>

(***************************************************************************)
(* read.js: the parser of the ZIP64 end of central directory record, and   *)
(* the round trip of a record through write.js and read.js.  The record is *)
(* serialized between a prefix and a suffix of other bytes and parsed at   *)
(* the position where it starts.                                           *)
(***************************************************************************)
readZip64EndOfCentralDirectoryRecord(handle, offset) ==
  LET buffer == read(handle, offset, 54)
      zip64EndOfCentralDirectoryRecordSize == readBigUInt64LE(buffer.v, 4)
      rest == read(handle, WAdd(offset, W(54)),
                   WNum(zip64EndOfCentralDirectoryRecordSize))
  IN  IF ~buffer.ok THEN buffer
      ELSE IF readUInt32LE(buffer.v, 0) # Zip64EndOfCentralDirectoryRecordSignature
        THEN Err("invalid zip64 end of central directory record signature")
      ELSE IF ~rest.ok THEN rest
      \* readBigUInt64LE(48) needs bytes 48..55 of the buffer that was read
      ELSE IF ~HasBytes(buffer.v, 48, 8) THEN Err("ERR_OUT_OF_RANGE")
      ELSE Ok([zip64EndOfCentralDirectoryRecordSize |-> zip64EndOfCentralDirectoryRecordSize,
               versionMadeBy |-> readUInt16LE(buffer.v, 12),
               versionNeededToExtract |-> readUInt16LE(buffer.v, 14),
               diskNumber |-> readUInt32LE(buffer.v, 16),
               centralDirectoryDiskNumber |-> readUInt32LE(buffer.v, 20),
               numberOfEntriesOnDisk |-> readBigUInt64LE(buffer.v, 24),
               numberOfEntries |-> readBigUInt64LE(buffer.v, 32),
               sizeOfCentralDirectory |-> readBigUInt64LE(buffer.v, 40),
               centralDirectoryOffset |-> readBigUInt64LE(buffer.v, 48),
               zip64ExtensibleDataSector |-> rest.v])

Zip64Records ==
  {[versionMadeBy |-> versionMadeBy,
    versionNeededToExtract |-> VERSION_NEEDED_TO_EXTRACT_ZIP64,
    diskNumber |-> diskNumber,
    centralDirectoryDiskNumber |-> WZero,
    numberOfEntriesOnDisk |-> count,
    numberOfEntries |-> count,
    sizeOfCentralDirectory |-> size,
    centralDirectoryOffset |-> position,
    zip64ExtensibleDataSector |-> sector] :
     versionMadeBy \in {VERSION_MADE_BY, 63},
     diskNumber \in {WZero, W(1)},
     count \in {WZero, W(65535), <<0, 0, 1, 0>>},
     size \in {WZero, U32Max},
     position \in {WZero, <<0, 0, 1, 0>>},
     sector \in {<<>>, <<7>>, <<7, 8, 9>>}}

InitRecord ==
  /\ cursorSeed = WZero
  /\ queue = 0
  /\ outputStreamCursor = WZero
  /\ entries = <<>>
  /\ offsetOfStartOfCentralDirectory = Undefined
  /\ out = <<>>
  /\ stream = [ended |-> FALSE, errored |-> FALSE, destroyed |-> FALSE]
  /\ ops \in {<<[kind |-> "zip64 record", object |-> object, prefix |-> prefix,
                 suffix |-> suffix, st |-> "given", buffer |-> <<>>,
                 result |-> Err("")]>> :
                object \in Zip64Records,
                prefix \in {<<>>, <<1>>},
                suffix \in {<<>>, [k \in 1..42 |-> 0], [k \in 1..48 |-> k]}}
  /\ rd = NoReader

SerializeZip64Record ==
  /\ ops[1].st = "given"
  /\ LET buffer == serializeZip64EndOfCentralDirectoryRecord(ops[1].object)
     IN  ops' = IF buffer.ok
                THEN [ops EXCEPT ![1].st = "serialized", ![1].buffer = buffer.v]
                ELSE [ops EXCEPT ![1].st = "threw"]
  /\ UNCHANGED <<cursorSeed, queue, outputStreamCursor, entries,
                 offsetOfStartOfCentralDirectory, out, stream, rd>>

ReadZip64Record ==
  /\ ops[1].st = "serialized"
  /\ ops' = [ops EXCEPT
               ![1].st = "read",
               ![1].result = readZip64EndOfCentralDirectoryRecord(
                               ops[1].prefix \o ops[1].buffer \o ops[1].suffix,
                               W(Len(ops[1].prefix)))]
  /\ UNCHANGED <<cursorSeed, queue, outputStreamCursor, entries,
                 offsetOfStartOfCentralDirectory, out, stream, rd>>

NextRecord == SerializeZip64Record \/ ReadZip64Record

SpecRecord == InitRecord /\ [][NextRecord]_vars

\* C39: parsing a serialized ZIP64 end of central directory record at the position
\* where it starts succeeds; the parsed versions, disk numbers, entry counts, size
\* and position of the central directory are the serialized ones, the record size
\* is 44 plus the length of the extensible data sector, and the sector returned is
\* the bytes that follow the 56-byte fixed part.
C39_Zip64RecordRoundTrip ==
  ops[1].st = "read"
    => LET object == ops[1].object
           result == ops[1].result
       IN  /\ result.ok
           /\ result.v.versionMadeBy = object.versionMadeBy
           /\ result.v.versionNeededToExtract = object.versionNeededToExtract
           /\ result.v.diskNumber = object.diskNumber
           /\ result.v.centralDirectoryDiskNumber = object.centralDirectoryDiskNumber
           /\ result.v.numberOfEntriesOnDisk = object.numberOfEntriesOnDisk
           /\ result.v.numberOfEntries = object.numberOfEntries
           /\ result.v.sizeOfCentralDirectory = object.sizeOfCentralDirectory
           /\ result.v.centralDirectoryOffset = object.centralDirectoryOffset
           /\ result.v.zip64EndOfCentralDirectoryRecordSize
                = W(44 + Len(object.zip64ExtensibleDataSector))
           /\ result.v.zip64ExtensibleDataSector = object.zip64ExtensibleDataSector
           /\ Len(ops[1].buffer) = 56 + Len(object.zip64ExtensibleDataSector)

(***************************************************************************)
(* read.js: read(), at the positions fromRandomAccessReader passes to it.  *)
(* The source is an end of central directory record with no comment after  *)
(* a prefix of 0 to 21 other bytes, or after a ZIP64 locator with or       *)
(* without the ZIP64 record it points at; the record's entry count and     *)
(* central directory position are values or the ZIP64 sentinels.           *)
(***************************************************************************)
\* the place of the last end of central directory signature in the source
EocdrPosition(handle) ==
  Highest({i \in 0..(Len(handle) - eocdrWithoutCommentSize) :
             readUInt32LE(handle, i) = EndOfCentralDirectoryRecordSignature})

\* zip64EocdlOffset: the position of the locator read, a number below zero when the
\* record lies less than 20 bytes from the start of the source
Zip64EocdlOffset(handle) == EocdrPosition(handle) - 20

EocdrWith(entryCount, centralDirectoryOffset) ==
  writeUInt32LE(EndOfCentralDirectoryRecordSignature)
    \o writeUInt16LE(0) \o writeUInt16LE(0)
    \o writeUInt16LE(entryCount) \o writeUInt16LE(entryCount)
    \o writeUInt32LE(WZero) \o writeUInt32LE(centralDirectoryOffset)
    \o writeUInt16LE(0)

EmptyZip64Record ==
  serializeZip64EndOfCentralDirectoryRecord(
    [versionMadeBy |-> VERSION_MADE_BY,
     versionNeededToExtract |-> VERSION_NEEDED_TO_EXTRACT_ZIP64,
     diskNumber |-> WZero,
     centralDirectoryDiskNumber |-> WZero,
     numberOfEntriesOnDisk |-> WZero,
     numberOfEntries |-> WZero,
     sizeOfCentralDirectory |-> WZero,
     centralDirectoryOffset |-> WZero,
     zip64ExtensibleDataSector |-> <<>>]).v

LocatorTo(position) ==
  serializeZip64EndOfCentralDirectoryLocator(
    [zip64EndOfCentralDirectoryRecordDiskNumber |-> WZero,
     zip64EndOfCentralDirectoryRecordOffset |-> position,
     diskCount |-> W(1)]).v

LocatorPrefixes ==
  {[k \in 1..n |-> 1] : n \in 0..21}
    \cup {LocatorTo(position) : position \in {WZero, W(1), <<0, 0, 1, 0>>}}
    \cup {EmptyZip64Record \o LocatorTo(WZero),
          <<1>> \o EmptyZip64Record \o LocatorTo(W(1)),
          <<1>> \o EmptyZip64Record \o LocatorTo(WZero)}

LocatorHandles ==
  {prefix \o EocdrWith(entryCount, centralDirectoryOffset) :
     prefix \in LocatorPrefixes,
     entryCount \in {0, 1, 65535},
     centralDirectoryOffset \in {WZero, U32Max}}

InitLocator ==
  /\ cursorSeed = WZero
  /\ queue = 0
  /\ outputStreamCursor = WZero
  /\ entries = <<>>
  /\ offsetOfStartOfCentralDirectory = Undefined
  /\ out \in {<<Chunk("eocd", 0, handle)>> : handle \in LocatorHandles}
  /\ stream = [ended |-> TRUE, errored |-> FALSE, destroyed |-> FALSE]
  /\ ops = <<>>
  /\ rd = NoReader

NextLocator ==
  \/ FromBuffer
  \/ EntriesNext

SpecLocator == InitLocator /\ [][NextLocator]_vars

\* read() gave exactly length bytes, the ones at [position, position + length) of the
\* source, or failed with 'unexpected EOF'
ReadIsExact(handle, position, length) ==
  LET buffer == read(handle, position, length)
  IN  IF buffer.ok
      THEN /\ Len(buffer.v) = length
           /\ ~IsNegative(position)
           /\ WIsSmall(position)
           /\ buffer.v = SubSeq(handle, WNum(position) + 1, WNum(position) + length)
      ELSE buffer.err = "unexpected EOF"

\* the classic record holds a sentinel: the reader goes on to the ZIP64 locator
LocatorIsRead ==
  /\ rd.phase # "idle"
  /\ \/ readUInt16LE(Archive, EocdrPosition(Archive) + 10) = 65535
     \/ readUInt32LE(Archive, EocdrPosition(Archive) + 16) = U32Max

\* C40: every read the reader makes (of the 20 bytes of the ZIP64 locator at the
\* record's position less 20, of the 56 bytes of the ZIP64 record at the position
\* the locator holds, of the 46 bytes of a central directory header at the
\* iterator's cursor) returns exactly that many bytes, which are the bytes of the
\* source at that position, or fails with 'unexpected EOF'.
C40_ReadReturnsTheBytesAtPosition ==
  /\ LocatorIsRead
       => LET position == BigInt(Zip64EocdlOffset(Archive))
              locator == read(Archive, position, 20)
          IN  /\ ReadIsExact(Archive, position, 20)
              /\ (locator.ok /\ HasBytes(locator.v, 0, 20))
                   => ReadIsExact(Archive, readBigUInt64LE(locator.v, 8), 56)
  /\ rd.phase = "open" => ReadIsExact(Archive, rd.cursor, 46)

====
